---- MODULE Spec2Model ----
(***************************************************************************)
(* service-tracking: the trip-track aggregate, its repository, the three   *)
(* event handlers of TrackingService, and the websocket hub with its       *)
(* connections' pumps and its callers, as a state machine.                 *)
(*                                                                         *)
(* Distances are integers: kilometres with three decimals are held as      *)
(* metres (111.178 km = 111178), the unrounded haversine sum as            *)
(* millimetres.  Times are drawn from the small set Times.                 *)
(***************************************************************************)
EXTENDS Integers, Sequences, FiniteSets, TLC

\* ------------------------------------------------------------- bounds
\* handler invocations started in one behaviour with concurrent handlers
MaxInvocations == 3
\* handler invocations started in one behaviour that handles events one by one
MaxSerial == 4
\* handler invocations started in one behaviour whose store and bus may fail
MaxFaulty == 3
\* direct calls made on the free-standing aggregate
MaxCalls == 4
\* cap on the version counter reached by IncrementVersion
MaxVersion == 3
\* waypoint rows stored when a route is exported
MaxRows == 2
\* calls of Hub.Broadcast and Hub.BroadcastChat begun in one behaviour
MaxSends == 2
\* the same in a behaviour that opens a single connection
MaxSendsAlone == 3
\* capacity of a client's Send channel in the model (256 in HandleWebSocket)
SendCap == 1
\* capacity of the channels broadcast and chatBcast in the model (256 in NewHub)
BroadcastCap == 1

\* ------------------------------------------------------------- domains
Bookings == {"B1", "B2"}
Runners == {"R1", "R2"}
Procs == {"p1", "p2"}
Times == {1, 2}
\* latitudes and longitudes an event may carry; 91 is outside [-90,90] and 181
\* outside [-180,180]
Lats == {1, 91}
Lngs == {1, 2, 181}
NULL == "null"
\* a nil *time.Time; the times of the model start at 1
NoTime == 0

\* TrackingStatus constants
TrackingActive == "active"
TrackingCompleted == "completed"
TrackingCancelled == "cancelled"

VARIABLES
    tracks,     \* table trip_tracks: the set of stored TripTrackModel rows
    waypoints,  \* table waypoints: the stored WaypointModel rows, in insertion order
    hubLog,     \* the updates handed to Hub.Broadcast, in order
    published,  \* the events accepted by the producer, in order
    pc,         \* per handler goroutine: where it stands in its handler
    inv,        \* per handler goroutine: the event of its current or last invocation
    track,      \* per handler goroutine: the *TripTrack it holds in memory
    wpt,        \* per handler goroutine: the Waypoint it built
    started,    \* number of handler invocations started
    last,       \* the handler return made by the last step, if it made one
    storeErr,   \* per handler goroutine: whether a store call of its current
                \* invocation returned an error other than not-found
    faulty,     \* whether the store and the bus may fail in this behaviour
    serial,     \* whether events are handled one after another in this behaviour
    agg,        \* a free-standing in-memory *TripTrack, used through its methods
    aggOp,      \* the last method called on agg
    aggErr,     \* the error that call returned
    calls,      \* number of calls made on agg or on a function
    fnCall,     \* the last direct call of a function: its name and arguments
    fnResult,   \* what that call returned
    rooms,      \* Hub.rooms: booking -> set of clients, a key per room that exists
    broadcast,  \* channel Hub.broadcast: the updates buffered in it
    chatBcast,  \* channel Hub.chatBcast: the chat messages buffered in it
    Send,       \* per client: the messages buffered in channel Client.Send
    sendClosed, \* per client: whether Client.Send has been closed
    hubPc,      \* where Hub.Run stands: at its select or inside broadcastToRoom
    hubData,    \* the message broadcastToRoom is delivering
    hubRange,   \* the clients the range loop of broadcastToRoom has yet to visit
    droppedAt,  \* per client: the id of the message at which broadcastToRoom found
                \* its queue full and removed it, 0 while that has not happened
    readPump,   \* per client: where its connection handler and ReadPump stand
    writePump,  \* per client: where its WritePump stands
    frame,      \* per client: the messages WritePump has received for one write
    connClosed, \* per client: whether Conn.Close has been called
    wire,       \* per client: the messages written to its connection, in order
    callPc,     \* per caller of the hub: idle, or inside Broadcast or BroadcastChat
    callMsg,    \* per caller of the hub: the message it is handing over
    issued,     \* number of Broadcast and BroadcastChat calls begun
    unregisterCalls, \* per client: number of hub.Unregister calls made for it
    live        \* the clients whose connections are opened in this behaviour

vars == <<tracks, waypoints, hubLog, published, pc, inv, track, wpt, started,
          last, storeErr, faulty, serial, agg, aggOp, aggErr, calls, fnCall, fnResult,
          rooms, broadcast, chatBcast, Send, sendClosed, hubPc, hubData, hubRange,
          droppedAt, readPump, writePump, frame, connClosed, wire, callPc, callMsg,
          issued, unregisterCalls, live>>
svcVars == <<tracks, waypoints, hubLog, published, pc, inv, track, wpt, started, last,
             storeErr>>
envVars == <<faulty, serial>>
aggVars == <<agg, aggOp, aggErr, calls, fnCall, fnResult>>
\* the hub's own state, the state of the connections and that of the hub's callers
hubState == <<rooms, broadcast, chatBcast, Send, sendClosed, hubPc, hubData, hubRange,
              droppedAt>>
connVars == <<readPump, writePump, frame, connClosed, wire>>
callVars == <<callPc, callMsg, issued>>
hubVars == <<hubState, connVars, callVars, unregisterCalls, live>>

\* ------------------------------------------------------------- errors
NoErr == [kind |-> "nil", current |-> "", target |-> ""]
\* domain.NewInvalidStateError(current, target)
InvalidStateError(current, target) ==
    [kind |-> "invalid_state", current |-> current, target |-> target]

\* ------------------------------------------------------------- aggregate
NoTrack == [id |-> 0, bookingID |-> NULL, runnerID |-> NULL, status |-> NULL,
            totalDistanceKm |-> 0, startedAt |-> 0, completedAt |-> NoTime,
            version |-> 0, createdAt |-> 0, updatedAt |-> 0]

NewTripTrack(id, bookingID, runnerID, now) ==
    [id |-> id, bookingID |-> bookingID, runnerID |-> runnerID,
     status |-> TrackingActive, totalDistanceKm |-> 0, startedAt |-> now,
     completedAt |-> NoTime, version |-> 1, createdAt |-> now, updatedAt |-> now]

\* IsActive answering yes for every status
IsActiveAlways(t) == TRUE

\* TripTrack.IsActive
IsActive(t) == t.status = TrackingActive

\* Complete without its status guard
CompleteNoGuard(t, totalDistanceKm, now) ==
    [track |-> [t EXCEPT !.status = TrackingCompleted,
                         !.totalDistanceKm = totalDistanceKm,
                         !.completedAt = now,
                         !.updatedAt = now],
     err |-> NoErr]

\* TripTrack.Complete: the track after the call and the error returned
Complete(t, totalDistanceKm, now) ==
    IF t.status # TrackingActive
    THEN [track |-> t, err |-> InvalidStateError(t.status, TrackingCompleted)]
    ELSE [track |-> [t EXCEPT !.status = TrackingCompleted,
                              !.totalDistanceKm = totalDistanceKm,
                              !.completedAt = now,
                              !.updatedAt = now],
          err |-> NoErr]

\* Cancel guarded against cancelled tracks only
CancelGuardsCancelledOnly(t, now) ==
    IF t.status = TrackingCancelled
    THEN [track |-> t, err |-> InvalidStateError(t.status, TrackingCancelled)]
    ELSE [track |-> [t EXCEPT !.status = TrackingCancelled, !.updatedAt = now],
          err |-> NoErr]

\* TripTrack.Cancel
Cancel(t, now) ==
    IF t.status # TrackingActive
    THEN [track |-> t, err |-> InvalidStateError(t.status, TrackingCancelled)]
    ELSE [track |-> [t EXCEPT !.status = TrackingCancelled, !.updatedAt = now],
          err |-> NoErr]

\* TripTrack.IncrementVersion
IncrementVersion(t, now) == [t EXCEPT !.version = t.version + 1, !.updatedAt = now]

\* ------------------------------------------------------------- geo kernel
NoWaypoint == [latitude |-> 0, longitude |-> 0, speed |-> 0, heading |-> 0,
               recordedAt |-> 0]

\* NewWaypoint without its range checks
NewWaypointUnchecked(lat, lng, speed, heading, recordedAt) ==
    [ok |-> TRUE,
     wp |-> [latitude |-> lat, longitude |-> lng,
             speed |-> IF speed < 0 THEN 0 ELSE speed,
             heading |-> IF heading < 0 \/ heading > 360 THEN 0 ELSE heading,
             recordedAt |-> recordedAt]]

\* NewWaypoint: ok is FALSE when the constructor returns an error
NewWaypoint(lat, lng, speed, heading, recordedAt) ==
    IF lat < -90 \/ lat > 90 THEN [ok |-> FALSE, wp |-> NoWaypoint]
    ELSE IF lng < -180 \/ lng > 180 THEN [ok |-> FALSE, wp |-> NoWaypoint]
    ELSE [ok |-> TRUE,
          wp |-> [latitude |-> lat, longitude |-> lng,
                  speed |-> IF speed < 0 THEN 0 ELSE speed,
                  heading |-> IF heading < 0 \/ heading > 360 THEN 0 ELSE heading,
                  recordedAt |-> recordedAt]]

Abs(x) == IF x < 0 THEN 0 - x ELSE x

\* haversineKm, in millimetres, tabulated from the formula (earth radius 6371 km)
\* for the points on latitude 1 that the model's events can carry:
\* one degree of longitude there is 111.177991 km, two are 222.355979 km.
haversineKm(lat1, lon1, lat2, lon2) ==
    CASE Abs(lon2 - lon1) = 0 -> 0
      [] Abs(lon2 - lon1) = 1 -> 111177991
      [] OTHER -> 222355979

RECURSIVE SumSegments(_, _)
SumSegments(wps, i) ==
    IF i > Len(wps) THEN 0
    ELSE haversineKm(wps[i-1].latitude, wps[i-1].longitude,
                     wps[i].latitude, wps[i].longitude) + SumSegments(wps, i + 1)

\* calculateTotalDistance measuring a first leg from the point (0, 0) and
\* without the test of the length
calculateTotalDistanceFromOrigin(wps) ==
    IF Len(wps) = 0 THEN 0
    ELSE (haversineKm(0, 0, wps[1].latitude, wps[1].longitude)
          + SumSegments(wps, 2) + 500) \div 1000

\* calculateTotalDistance: metres, i.e. kilometres rounded to 3 decimals
calculateTotalDistance(wps) ==
    IF Len(wps) < 2 THEN 0
    ELSE (SumSegments(wps, 2) + 500) \div 1000

\* ------------------------------------------------------------- repository
\* the lookup by booking restricted to active rows
FindByBookingIDActiveOnly(bookingID) ==
    {r \in tracks : r.bookingID = bookingID /\ r.status = TrackingActive}

\* the lookup by booking without its WHERE clause
FindByBookingIDAnyBooking(bookingID) == tracks

\* rows First() may return for WHERE booking_id = ?
FindByBookingID(bookingID) == {r \in tracks : r.bookingID = bookingID}

\* the lookup of the active track without the runner condition
FindActiveByRunnerIDAnyRunner(runnerID) ==
    {r \in tracks : r.status = TrackingActive}

\* rows First() may return for WHERE runner_id = ? AND status = 'active';
\* First() orders by the primary key, a random uuid, so any of them may come first
FindActiveByRunnerID(runnerID) ==
    {r \in tracks : r.runnerID = runnerID /\ r.status = TrackingActive}

\* Save with the primary key as the only constraint
SaveAcceptsPrimaryKeyOnly(t) ==
    ~ \E r \in tracks : r.id = t.id

\* Save (INSERT): the primary key and the unique index on booking_id admit the row
SaveAccepts(t) ==
    ~ \E r \in tracks : r.id = t.id \/ r.bookingID = t.bookingID

\* Update: what Where("id = ? AND version = ?", ID, Version-1).Save(model) can do.
\* When the guarded UPDATE matches the row it is overwritten.  When it matches no
\* row the outcome depends on the gorm release the build links: Save either
\* reports zero rows affected (ErrOptimisticLock), or falls back to
\* INSERT ... ON CONFLICT (id) DO UPDATE, which overwrites the row whatever its
\* version.  Both outcomes are kept.
UpdateOutcomes(t) ==
    IF \E r \in tracks : r.id = t.id /\ r.version = t.version - 1
    THEN {"updated"}
    ELSE {"optimistic_lock", "upsert"}

\* the table after the row with t's primary key is overwritten by t
WriteRow(t) == {r \in tracks : r.id # t.id} \cup {t}

\* AddWaypoint: the WaypointModel row stored for a waypoint
WaypointRow(trackID, wp) ==
    [tripTrackID |-> trackID, latitude |-> wp.latitude, longitude |-> wp.longitude,
     speed |-> wp.speed, heading |-> wp.heading, recordedAt |-> wp.recordedAt]

\* positions of the rows of one track, in insertion order
RowsOf(trackID) == {i \in 1..Len(waypoints) : waypoints[i].tripTrackID = trackID}

\* GetWaypoints: the results ORDER BY recorded_at ASC may give; rows with equal
\* recorded_at come in an order the database chooses
GetWaypoints(trackID) ==
    LET idx == RowsOf(trackID)
        n == Cardinality(idx)
        orders == {f \in [1..n -> idx] :
                      /\ \A i, j \in 1..n : i # j => f[i] # f[j]
                      /\ \A i \in 1..n : \A j \in 1..n :
                            i < j => waypoints[f[i]].recordedAt <= waypoints[f[j]].recordedAt}
    IN {[i \in 1..n |-> waypoints[f[i]]] : f \in orders}

\* a GeoJSON text: the empty string, or a LineString document with its coordinates
EmptyString == [type |-> "", coordinates |-> << >>]
LineString(coordinates) == [type |-> "LineString", coordinates |-> coordinates]

\* one []float64{wp.Longitude, wp.Latitude} per waypoint
Coordinates(wps) == [i \in 1..Len(wps) |-> <<wps[i].longitude, wps[i].latitude>>]

\* buildGeoJSONLineString putting the latitude first
buildGeoJSONLineStringLatitudeFirst(wps) ==
    IF Len(wps) = 0
    THEN [geoJSON |-> LineString(<< >>), err |-> FALSE]
    ELSE [geoJSON |-> LineString([i \in 1..Len(wps) |->
                                     <<wps[i].latitude, wps[i].longitude>>]),
          err |-> FALSE]

\* buildGeoJSONLineString; json.Marshal of finite numbers does not fail
buildGeoJSONLineString(wps) ==
    IF Len(wps) = 0
    THEN [geoJSON |-> LineString(<< >>), err |-> FALSE]
    ELSE [geoJSON |-> LineString(Coordinates(wps)), err |-> FALSE]

\* the outcomes the query with ST_MakeLine and its Scan may have: an error (the
\* function is missing, or the NULL of an aggregate over no rows cannot be
\* scanned into a string), the empty string, or with rows the line through the
\* points ORDER BY recorded_at
MakeLineQuery(trackID) ==
    {[geoJSON |-> EmptyString, err |-> TRUE], [geoJSON |-> EmptyString, err |-> FALSE]}
    \cup (IF RowsOf(trackID) = {} THEN {}
          ELSE {[geoJSON |-> LineString(Coordinates(w)), err |-> FALSE] :
                    w \in GetWaypoints(trackID)})

\* GetRouteAsGeoJSON returning what the query gave, without the fallback
GetRouteAsGeoJSONWithoutFallback(trackID, native) == {native}

\* GetRouteAsGeoJSON, given the outcome of its query: the results it may return.
\* The fallback's GetWaypoints may fail in behaviours that admit failures
GetRouteAsGeoJSON(trackID, native) ==
    IF ~native.err /\ native.geoJSON # EmptyString
    THEN {[geoJSON |-> native.geoJSON, err |-> FALSE]}
    ELSE {buildGeoJSONLineString(w) : w \in GetWaypoints(trackID)}
         \cup (IF faulty THEN {[geoJSON |-> EmptyString, err |-> TRUE]} ELSE {})

\* ------------------------------------------------------------- handlers
NoInv == [n |-> 0, h |-> NULL, bookingID |-> NULL, runnerID |-> NULL,
          lat |-> 0, lng |-> 0, ts |-> 0, topic |-> NULL, type |-> NULL]

\* the two topics consumed and the event types a message may carry; the last type
\* is one that neither consumer handles
TopicBookingEvents == "booking-events"
TopicRunnerEvents == "runner-events"
BookingAccepted == "booking.accepted"
BookingDeliveryConfirmed == "booking.delivery_confirmed"
RunnerLocationUpdate == "runner.location_update"
BookingCancelled == "booking.cancelled"
Topics == {TopicBookingEvents, TopicRunnerEvents}
EventTypes == {BookingAccepted, BookingDeliveryConfirmed, RunnerLocationUpdate,
               BookingCancelled}
Messages == [topic : Topics, type : EventTypes]

\* handleMessage of the topic's consumer taking any type for delivery-confirmed
\* where the switch has its default
handleMessageWithoutDefault(topic, type) ==
    IF topic = TopicBookingEvents
    THEN IF type = BookingAccepted THEN "BookingAccepted" ELSE "DeliveryConfirmed"
    ELSE "RunnerLocationUpdate"

\* handleMessage of the topic's consumer: the switch on cloudEvent.Type, which
\* names the handler to call or, by its default, ignores the event
handleMessage(topic, type) ==
    IF topic = TopicBookingEvents
    THEN IF type = BookingAccepted THEN "BookingAccepted"
         ELSE IF type = BookingDeliveryConfirmed THEN "DeliveryConfirmed"
         ELSE "ignored"
    ELSE IF type = RunnerLocationUpdate THEN "RunnerLocationUpdate"
         ELSE "ignored"

\* the messages that handleMessage answers with handler h
Dispatched(h) == {m \in Messages : handleMessage(m.topic, m.type) = h}

\* a store call or a publish may fail only in behaviours that admit failures
FailChoices == IF faulty THEN BOOLEAN ELSE {FALSE}

Event(type, t) ==
    [type |-> type, trackID |-> t.id, bookingID |-> t.bookingID,
     runnerID |-> t.runnerID, totalDistance |-> t.totalDistanceKm]

NoReturn == [p |-> NULL, ev |-> NoInv, from |-> NULL, err |-> "none",
             storeErr |-> FALSE]

\* time.Now() inside invocation e: the model's clock is the invocation number
Now(e) == e.n

\* the handler of p, invoked with e, returns err ("nil" or "error"): p is idle again
\* failed tells whether the store call made in this step returned an error
ReturnAfter(p, e, err, failed) ==
    /\ pc' = [pc EXCEPT ![p] = "idle"]
    /\ inv' = [inv EXCEPT ![p] = NoInv]
    /\ track' = [track EXCEPT ![p] = NoTrack]
    /\ wpt' = [wpt EXCEPT ![p] = NoWaypoint]
    /\ storeErr' = [storeErr EXCEPT ![p] = FALSE]
    /\ last' = [p |-> p, ev |-> e, from |-> pc[p], err |-> err,
                storeErr |-> storeErr[p] \/ failed]

\* a return in a step whose store call, if it made one, worked
Return(p, e, err) == ReturnAfter(p, e, err, FALSE)

\* the handler of p goes on to the step at label l
Goto(p, l) ==
    /\ pc' = [pc EXCEPT ![p] = l]
    /\ last' = NoReturn

\* how many invocations a behaviour starts, by the kind of behaviour
InvocationLimit ==
    IF faulty THEN MaxFaulty ELSE IF serial THEN MaxSerial ELSE MaxInvocations

\* a store call of p's invocation returned an error, or did not, and the handler
\* goes on
StoreCall(p, failed) == storeErr' = [storeErr EXCEPT ![p] = @ \/ failed]

\* p is handed an event: a handler starts
Invoke(p) ==
    /\ pc[p] = "idle"
    /\ serial => \A q \in Procs : pc[q] = "idle"
    /\ started < InvocationLimit
    /\ started' = started + 1

\* handleMessage with an event type that its switch does not name: the default
\* branch logs the type and returns nil
ConsumerIgnore(p, m) ==
    /\ Invoke(p)
    /\ handleMessage(m.topic, m.type) = "ignored"
    /\ Return(p, [NoInv EXCEPT !.n = started + 1, !.h = "ignored",
                               !.topic = m.topic, !.type = m.type], "nil")
    /\ UNCHANGED <<tracks, waypoints, hubLog, published, envVars, aggVars, hubVars>>

\* HandleBookingAccepted up to the existence check: FindByBookingID, whose error
\* is discarded, then NewTripTrack
BookingAcceptedFind(p, b, r) ==
    /\ Invoke(p)
    /\ \E m \in Dispatched("BookingAccepted") :
       LET e == [NoInv EXCEPT !.n = started + 1, !.h = "BookingAccepted",
                              !.bookingID = b, !.runnerID = r,
                              !.topic = m.topic, !.type = m.type]
       IN \E fail \in FailChoices :
            LET existing == IF fail THEN {} ELSE FindByBookingID(b)
            IN IF existing # {}
               THEN Return(p, e, "nil")
               ELSE /\ StoreCall(p, fail)
                    /\ inv' = [inv EXCEPT ![p] = e]
                    /\ track' = [track EXCEPT ![p] = NewTripTrack(e.n, b, r, Now(e))]
                    /\ Goto(p, "ba_save")
                    /\ wpt' = wpt
    /\ UNCHANGED <<tracks, waypoints, hubLog, published, envVars, aggVars, hubVars>>

\* HandleBookingAccepted: repo.Save
BookingAcceptedSave(p) ==
    /\ pc[p] = "ba_save"
    /\ \E fail \in FailChoices :
         IF fail \/ ~SaveAccepts(track[p])
         THEN /\ ReturnAfter(p, inv[p], "error", TRUE)
              /\ tracks' = tracks
         ELSE /\ tracks' = tracks \cup {track[p]}
              /\ Goto(p, "ba_publish")
              /\ UNCHANGED <<inv, track, wpt, storeErr>>
    /\ UNCHANGED <<waypoints, hubLog, published, started, envVars, aggVars, hubVars>>

\* HandleBookingAccepted: publish tracking.started, best effort
BookingAcceptedPublish(p) ==
    /\ pc[p] = "ba_publish"
    /\ \E fail \in FailChoices :
         published' = IF fail THEN published
                      ELSE Append(published, Event("tracking.started", track[p]))
    /\ Return(p, inv[p], "nil")
    /\ UNCHANGED <<tracks, waypoints, hubLog, started, envVars, aggVars, hubVars>>

\* the TrackingUpdate handed to the hub for a stored waypoint
TrackingUpdate(t, e) ==
    [bookingID |-> t.bookingID, runnerID |-> t.runnerID,
     latitude |-> e.lat, longitude |-> e.lng, timestamp |-> e.ts]

\* HandleRunnerLocationUpdate up to the waypoint: FindActiveByRunnerID, any error
\* of which ends the handler with nil, then NewWaypoint
LocationUpdateFind(p, r, lat, lng, ts) ==
    /\ Invoke(p)
    /\ \E m \in Dispatched("RunnerLocationUpdate") :
       LET e == [NoInv EXCEPT !.n = started + 1, !.h = "RunnerLocationUpdate",
                              !.runnerID = r, !.lat = lat, !.lng = lng, !.ts = ts,
                              !.topic = m.topic, !.type = m.type]
       IN \E fail \in FailChoices :
            LET found == IF fail THEN {} ELSE FindActiveByRunnerID(r)
                w == NewWaypoint(lat, lng, 0, 0, ts)
            IN IF found = {} \/ ~w.ok
               THEN ReturnAfter(p, e, "nil", fail)
               ELSE \E t \in found :
                      /\ inv' = [inv EXCEPT ![p] = e]
                      /\ track' = [track EXCEPT ![p] = t]
                      /\ wpt' = [wpt EXCEPT ![p] = w.wp]
                      /\ storeErr' = storeErr
                      /\ Goto(p, "lu_add")
    /\ UNCHANGED <<tracks, waypoints, hubLog, published, envVars, aggVars, hubVars>>

\* AddWaypoint that also raises the version of the track's row
LocationUpdateAddBumpsVersion(p) ==
    /\ pc[p] = "lu_add"
    /\ \E fail \in FailChoices :
         IF fail
         THEN /\ ReturnAfter(p, inv[p], "error", TRUE)
              /\ UNCHANGED <<waypoints, tracks>>
         ELSE /\ waypoints' = Append(waypoints, WaypointRow(track[p].id, wpt[p]))
              /\ tracks' = {IF r.id = track[p].id
                            THEN [r EXCEPT !.version = (@ % MaxVersion) + 1]
                            ELSE r : r \in tracks}
              /\ Goto(p, "lu_bcast")
              /\ UNCHANGED <<inv, track, wpt, storeErr>>
    /\ UNCHANGED <<hubLog, published, started, envVars, aggVars, hubVars>>

\* AddWaypoint keeping only the latest waypoint of a track
LocationUpdateAddKeepsLatest(p) ==
    /\ pc[p] = "lu_add"
    /\ \E fail \in FailChoices :
         IF fail
         THEN /\ ReturnAfter(p, inv[p], "error", TRUE)
              /\ waypoints' = waypoints
         ELSE /\ waypoints' = Append(SelectSeq(waypoints,
                                        LAMBDA w : w.tripTrackID # track[p].id),
                                     WaypointRow(track[p].id, wpt[p]))
              /\ Goto(p, "lu_bcast")
              /\ UNCHANGED <<inv, track, wpt, storeErr>>
    /\ UNCHANGED <<tracks, hubLog, published, started, envVars, aggVars, hubVars>>

\* AddWaypoint whose failure is only logged, the handler going on to the broadcast
LocationUpdateAddSwallowsFailure(p) ==
    /\ pc[p] = "lu_add"
    /\ \E fail \in FailChoices :
         /\ waypoints' = IF fail THEN waypoints
                         ELSE Append(waypoints, WaypointRow(track[p].id, wpt[p]))
         /\ Goto(p, "lu_bcast")
         /\ UNCHANGED <<inv, track, wpt, storeErr>>
    /\ UNCHANGED <<tracks, hubLog, published, started, envVars, aggVars, hubVars>>

\* HandleRunnerLocationUpdate: repo.AddWaypoint
LocationUpdateAdd(p) ==
    /\ pc[p] = "lu_add"
    /\ \E fail \in FailChoices :
         IF fail
         THEN /\ ReturnAfter(p, inv[p], "error", TRUE)
              /\ waypoints' = waypoints
         ELSE /\ waypoints' = Append(waypoints, WaypointRow(track[p].id, wpt[p]))
              /\ Goto(p, "lu_bcast")
              /\ UNCHANGED <<inv, track, wpt, storeErr>>
    /\ UNCHANGED <<tracks, hubLog, published, started, envVars, aggVars, hubVars>>

\* HandleRunnerLocationUpdate: hub.Broadcast(update)
LocationUpdateBroadcast(p) ==
    /\ pc[p] = "lu_bcast"
    /\ hubLog' = Append(hubLog, TrackingUpdate(track[p], inv[p]))
    /\ Goto(p, "lu_publish")
    /\ UNCHANGED <<tracks, waypoints, published, inv, track, wpt, started,
                   storeErr, envVars, aggVars, hubVars>>

\* HandleRunnerLocationUpdate: publish tracking.updated, best effort
LocationUpdatePublish(p) ==
    /\ pc[p] = "lu_publish"
    /\ \E fail \in FailChoices :
         published' = IF fail THEN published
                      ELSE Append(published, Event("tracking.updated", track[p]))
    /\ Return(p, inv[p], "nil")
    /\ UNCHANGED <<tracks, waypoints, hubLog, started, envVars, aggVars, hubVars>>

\* HandleDeliveryConfirmed up to the IsActive check: FindByBookingID
DeliveryConfirmedFind(p, b) ==
    /\ Invoke(p)
    /\ \E m \in Dispatched("DeliveryConfirmed") :
       LET e == [NoInv EXCEPT !.n = started + 1, !.h = "DeliveryConfirmed",
                              !.bookingID = b,
                              !.topic = m.topic, !.type = m.type]
       IN \E fail \in FailChoices :
            LET found == IF fail THEN {} ELSE FindByBookingID(b)
            IN IF found = {}
               THEN ReturnAfter(p, e, "error", fail)
               ELSE \E t \in found :
                      IF ~IsActive(t)
                      THEN Return(p, e, "nil")
                      ELSE /\ inv' = [inv EXCEPT ![p] = e]
                           /\ track' = [track EXCEPT ![p] = t]
                           /\ Goto(p, "dc_waypoints")
                           /\ UNCHANGED <<wpt, storeErr>>
    /\ UNCHANGED <<tracks, waypoints, hubLog, published, envVars, aggVars, hubVars>>

\* HandleDeliveryConfirmed: repo.GetWaypoints, whose error is only logged and
\* leaves no waypoints, then calculateTotalDistance and track.Complete
DeliveryConfirmedComplete(p) ==
    /\ pc[p] = "dc_waypoints"
    /\ \E fail \in FailChoices :
         \E wps \in (IF fail THEN {<< >>} ELSE GetWaypoints(track[p].id)) :
           LET c == Complete(track[p], calculateTotalDistance(wps), Now(inv[p]))
           IN IF c.err # NoErr
              THEN ReturnAfter(p, inv[p], "error", fail)
              ELSE /\ StoreCall(p, fail)
                   /\ track' = [track EXCEPT ![p] = c.track]
                   /\ Goto(p, "dc_update")
                   /\ UNCHANGED <<inv, wpt>>
    /\ UNCHANGED <<tracks, waypoints, hubLog, published, started, envVars,
                   aggVars, hubVars>>

\* repo.Update whose error is only logged, the handler going on to the publish
DeliveryConfirmedUpdateLogsFailure(p) ==
    /\ pc[p] = "dc_update"
    /\ \E fail \in FailChoices, outcome \in UpdateOutcomes(track[p]) :
         /\ tracks' = IF fail \/ outcome = "optimistic_lock" THEN tracks
                      ELSE WriteRow(track[p])
         /\ Goto(p, "dc_publish")
         /\ UNCHANGED <<inv, track, wpt, storeErr>>
    /\ UNCHANGED <<waypoints, hubLog, published, started, envVars, aggVars, hubVars>>

\* HandleDeliveryConfirmed: repo.Update
DeliveryConfirmedUpdate(p) ==
    /\ pc[p] = "dc_update"
    /\ \E fail \in FailChoices, outcome \in UpdateOutcomes(track[p]) :
         IF fail \/ outcome = "optimistic_lock"
         THEN /\ ReturnAfter(p, inv[p], "error", TRUE)
              /\ tracks' = tracks
         ELSE /\ tracks' = WriteRow(track[p])
              /\ Goto(p, "dc_publish")
              /\ UNCHANGED <<inv, track, wpt, storeErr>>
    /\ UNCHANGED <<waypoints, hubLog, published, started, envVars, aggVars, hubVars>>

\* the publish of tracking.completed with its error returned to the caller
DeliveryConfirmedPublishReturnsError(p) ==
    /\ pc[p] = "dc_publish"
    /\ \E fail \in FailChoices :
         IF fail
         THEN published' = published /\ Return(p, inv[p], "error")
         ELSE /\ published' = Append(published, Event("tracking.completed", track[p]))
              /\ Return(p, inv[p], "nil")
    /\ UNCHANGED <<tracks, waypoints, hubLog, started, envVars, aggVars, hubVars>>

\* HandleDeliveryConfirmed: publish tracking.completed, best effort
DeliveryConfirmedPublish(p) ==
    /\ pc[p] = "dc_publish"
    /\ \E fail \in FailChoices :
         published' = IF fail THEN published
                      ELSE Append(published, Event("tracking.completed", track[p]))
    /\ Return(p, inv[p], "nil")
    /\ UNCHANGED <<tracks, waypoints, hubLog, started, envVars, aggVars, hubVars>>

\* ------------------------------------------------------------- aggregate, used directly
NoOp == [op |-> NULL, distance |-> 0]
\* distances a caller may pass to Complete
Distances == {0, 111178}

Call ==
    /\ calls < MaxCalls
    /\ calls' = calls + 1

AggNew(b, r, now) ==
    /\ Call
    /\ agg' = NewTripTrack(calls + 1, b, r, now)
    /\ aggOp' = [NoOp EXCEPT !.op = "NewTripTrack"]
    /\ aggErr' = NoErr
    /\ UNCHANGED <<fnCall, fnResult, svcVars, envVars, hubVars>>

AggComplete(d, now) ==
    /\ Call
    /\ agg # NoTrack
    /\ agg' = Complete(agg, d, now).track
    /\ aggErr' = Complete(agg, d, now).err
    /\ aggOp' = [op |-> "Complete", distance |-> d]
    /\ UNCHANGED <<fnCall, fnResult, svcVars, envVars, hubVars>>

AggCancel(now) ==
    /\ Call
    /\ agg # NoTrack
    /\ agg' = Cancel(agg, now).track
    /\ aggErr' = Cancel(agg, now).err
    /\ aggOp' = [NoOp EXCEPT !.op = "Cancel"]
    /\ UNCHANGED <<fnCall, fnResult, svcVars, envVars, hubVars>>

AggIncrementVersion(now) ==
    /\ Call
    /\ agg # NoTrack
    /\ agg.version < MaxVersion
    /\ agg' = IncrementVersion(agg, now)
    /\ aggErr' = NoErr
    /\ aggOp' = [NoOp EXCEPT !.op = "IncrementVersion"]
    /\ UNCHANGED <<fnCall, fnResult, svcVars, envVars, hubVars>>

\* ------------------------------------------------------------- functions, called directly
NoCall == [op |-> NULL]
NoResult == [op |-> NULL]

\* arguments a caller may pass to NewWaypoint: the ends of the ranges, their
\* neighbours outside, and values inside
Latitudes == {-91, -90, 0, 90, 91}
Longitudes == {-181, -180, 0, 180, 181}
Speeds == {-1, 0, 5}
Headings == {-1, 0, 359, 360, 361}

\* a call of GetRouteAsGeoJSON for a track
RouteExport(trackID) ==
    /\ Call
    /\ \E native \in MakeLineQuery(trackID) :
         /\ fnCall' = [op |-> "GetRouteAsGeoJSON", trackID |-> trackID,
                       native |-> native]
         /\ fnResult' \in GetRouteAsGeoJSON(trackID, native)
    /\ UNCHANGED <<agg, aggOp, aggErr, svcVars, envVars, hubVars>>

\* a call of NewWaypoint with any arguments
NewWaypointCall(lat, lng, speed, heading, recordedAt) ==
    /\ Call
    /\ fnCall' = [op |-> "NewWaypoint", lat |-> lat, lng |-> lng, speed |-> speed,
                  heading |-> heading, recordedAt |-> recordedAt]
    /\ fnResult' = NewWaypoint(lat, lng, speed, heading, recordedAt)
    /\ UNCHANGED <<agg, aggOp, aggErr, svcVars, envVars, hubVars>>

\* ------------------------------------------------------------- websocket hub
\* the connections that may be opened, each for the booking of its URL
Clients == {"c1", "c2", "c3"}
BookingOf(c) == IF c = "c3" THEN "B2" ELSE "B1"
\* the connections opened in one behaviour: two of one booking, or one of each
Populations == {{"c1", "c2"}, {"c1", "c3"}}
\* goroutines that call Hub.Broadcast and Hub.BroadcastChat
Callers == {"k1"}
\* what a message is: a TrackingUpdate or a ChatMessage
Kinds == {"location_update", "chat_message"}

\* a message: the id is the number of the call that hands it over, after holds the
\* ids of the calls that had returned when this call began
NoMsg == [id |-> 0, bookingID |-> NULL, kind |-> NULL, after |-> {}]

\* the calls that have returned
Returned == (1..issued) \ {callMsg[k].id : k \in Callers}

\* h.rooms[b][c] = true, the room made first when it does not exist
RoomAdd(b, c) ==
    [x \in DOMAIN rooms \cup {b} |->
        IF x = b THEN (IF b \in DOMAIN rooms THEN rooms[b] ELSE {}) \cup {c}
        ELSE rooms[x]]

\* delete(clients, c) without the delete of the room that became empty
RoomRemoveKeepsRoom(b, c) == [rooms EXCEPT ![b] = @ \ {c}]

\* the removal of a client as the removal of its whole room
RoomRemoveWholeRoom(b, c) == [x \in DOMAIN rooms \ {b} |-> rooms[x]]

\* delete(clients, c); if len(clients) == 0 then delete(h.rooms, b)
RoomRemove(b, c) ==
    IF rooms[b] \ {c} = {}
    THEN [x \in DOMAIN rooms \ {b} |-> rooms[x]]
    ELSE [rooms EXCEPT ![b] = @ \ {c}]

\* c is in the room of its booking
InRoom(c) == BookingOf(c) \in DOMAIN rooms /\ c \in rooms[BookingOf(c)]

\* a receive that leaves the value in the channel
ReceiveWithoutRemoving(ch) == [value |-> Head(ch), rest |-> ch]

\* a receive from a buffered channel takes the value that was sent first
Receive(ch) == [value |-> Head(ch), rest |-> Tail(ch)]

\* HandleWebSocket hands the new client to Hub.Register and Run takes it from
\* h.register, an unbuffered channel: the room gets the client, then the handler
\* starts WritePump and ReadPump
HubRegister(c) ==
    /\ hubPc = "select"
    /\ readPump[c] = "new"
    /\ c \in live
    /\ rooms' = RoomAdd(BookingOf(c), c)
    /\ readPump' = [readPump EXCEPT ![c] = "reading"]
    /\ writePump' = [writePump EXCEPT ![c] = "select"]
    /\ UNCHANGED <<broadcast, chatBcast, Send, sendClosed, hubPc, hubData, hubRange,
                   droppedAt, frame, connClosed, wire, callVars, unregisterCalls, live, svcVars,
                   envVars, aggVars>>

\* the deferred hub.Unregister(c) of ReadPump deleting the client from its room
\* itself before it hands the client to Run
ReadPumpFailRemovesClient(c) ==
    /\ readPump[c] = "reading"
    /\ readPump' = [readPump EXCEPT ![c] = "unregister"]
    /\ unregisterCalls' = [unregisterCalls EXCEPT ![c] = @ + 1]
    /\ rooms' = IF InRoom(c) THEN RoomRemove(BookingOf(c), c) ELSE rooms
    /\ UNCHANGED <<broadcast, chatBcast, Send, sendClosed, hubPc, hubData, hubRange,
                   droppedAt, writePump, frame, connClosed, wire, callVars,
                   live, svcVars, envVars, aggVars>>

\* ReadPump: ReadMessage returns an error (the peer left, the read deadline passed
\* or the connection was closed); the deferred hub.Unregister(c) is next
ReadPumpFail(c) ==
    /\ readPump[c] = "reading"
    /\ readPump' = [readPump EXCEPT ![c] = "unregister"]
    /\ unregisterCalls' = [unregisterCalls EXCEPT ![c] = @ + 1]
    /\ UNCHANGED <<hubState, writePump, frame, connClosed, wire, callVars,
                   live, svcVars, envVars, aggVars>>

\* the unregister case of Run without its test that the client is in the room
HubUnregisterUnguarded(c) ==
    /\ hubPc = "select"
    /\ readPump[c] = "unregister"
    /\ rooms' = IF InRoom(c) THEN RoomRemove(BookingOf(c), c) ELSE rooms
    /\ IF sendClosed[c]
       THEN hubPc' = "panic" /\ sendClosed' = sendClosed
       ELSE hubPc' = hubPc /\ sendClosed' = [sendClosed EXCEPT ![c] = TRUE]
    /\ readPump' = [readPump EXCEPT ![c] = "close"]
    /\ UNCHANGED <<broadcast, chatBcast, Send, hubData, hubRange, droppedAt,
                   writePump, frame, connClosed, wire, callVars, unregisterCalls, live, svcVars,
                   envVars, aggVars>>

\* the unregister case of Run without close(client.Send)
HubUnregisterLeavesQueueOpen(c) ==
    /\ hubPc = "select"
    /\ readPump[c] = "unregister"
    /\ rooms' = IF InRoom(c) THEN RoomRemove(BookingOf(c), c) ELSE rooms
    /\ readPump' = [readPump EXCEPT ![c] = "close"]
    /\ UNCHANGED <<broadcast, chatBcast, Send, sendClosed, hubPc, hubData, hubRange,
                   droppedAt, writePump, frame, connClosed, wire, callVars,
                   unregisterCalls, live, svcVars, envVars, aggVars>>

\* Hub.Unregister sends on h.unregister and Run takes the client from it: the
\* client leaves its room and its Send is closed, if it is in its room
HubUnregister(c) ==
    /\ hubPc = "select"
    /\ readPump[c] = "unregister"
    /\ IF InRoom(c)
       THEN /\ rooms' = RoomRemove(BookingOf(c), c)
            /\ IF sendClosed[c]
               THEN hubPc' = "panic" /\ sendClosed' = sendClosed
               ELSE hubPc' = hubPc /\ sendClosed' = [sendClosed EXCEPT ![c] = TRUE]
       ELSE UNCHANGED <<rooms, sendClosed, hubPc>>
    /\ readPump' = [readPump EXCEPT ![c] = "close"]
    /\ UNCHANGED <<broadcast, chatBcast, Send, hubData, hubRange, droppedAt,
                   writePump, frame,
                   connClosed, wire, callVars, unregisterCalls, live, svcVars, envVars, aggVars>>

\* ReadPump: c.Conn.Close(), the last deferred call
ReadPumpClose(c) ==
    /\ readPump[c] = "close"
    /\ readPump' = [readPump EXCEPT ![c] = "done"]
    /\ connClosed' = [connClosed EXCEPT ![c] = TRUE]
    /\ UNCHANGED <<hubState, writePump, frame, wire, callVars, unregisterCalls, live, svcVars,
                   envVars, aggVars>>

\* how many calls a behaviour makes, by the connections it opens
SendLimit == IF Cardinality(live) = 1 THEN MaxSendsAlone ELSE MaxSends

\* a caller enters Hub.Broadcast or Hub.BroadcastChat with a message of booking b
HubCall(k, kind, b) ==
    /\ callPc[k] = "idle"
    /\ issued < SendLimit
    /\ issued' = issued + 1
    /\ callPc' = [callPc EXCEPT ![k] = kind]
    /\ callMsg' = [callMsg EXCEPT ![k] = [id |-> issued + 1, bookingID |-> b,
                                          kind |-> kind, after |-> Returned]]
    /\ UNCHANGED <<hubState, connVars, unregisterCalls, live, svcVars, envVars, aggVars>>

\* Hub.Broadcast: h.broadcast <- update, which waits while the buffer is full
Broadcast(k) ==
    /\ callPc[k] = "location_update"
    /\ Len(broadcast) < BroadcastCap
    /\ broadcast' = Append(broadcast, callMsg[k])
    /\ callPc' = [callPc EXCEPT ![k] = "idle"]
    /\ callMsg' = [callMsg EXCEPT ![k] = NoMsg]
    /\ UNCHANGED <<rooms, chatBcast, Send, sendClosed, hubPc, hubData, hubRange,
                   droppedAt, connVars, issued, unregisterCalls, live, svcVars, envVars, aggVars>>

\* Hub.BroadcastChat: h.chatBcast <- msg, which waits while the buffer is full
BroadcastChat(k) ==
    /\ callPc[k] = "chat_message"
    /\ Len(chatBcast) < BroadcastCap
    /\ chatBcast' = Append(chatBcast, callMsg[k])
    /\ callPc' = [callPc EXCEPT ![k] = "idle"]
    /\ callMsg' = [callMsg EXCEPT ![k] = NoMsg]
    /\ UNCHANGED <<rooms, broadcast, Send, sendClosed, hubPc, hubData, hubRange,
                   droppedAt, connVars, issued, unregisterCalls, live, svcVars, envVars, aggVars>>

\* broadcastToRoom ranging over one client of the room only
broadcastToRoomOneClient(m) ==
    IF m.bookingID \in DOMAIN rooms
    THEN /\ hubPc' = "deliver" /\ hubData' = m
         /\ hubRange' = {CHOOSE c \in rooms[m.bookingID] : TRUE}
    ELSE UNCHANGED <<hubPc, hubData, hubRange>>

\* broadcastToRoom ranging over the clients of every room
broadcastToEveryRoom(m) ==
    IF m.bookingID \in DOMAIN rooms
    THEN /\ hubPc' = "deliver" /\ hubData' = m
         /\ hubRange' = UNION {rooms[b] : b \in DOMAIN rooms}
    ELSE UNCHANGED <<hubPc, hubData, hubRange>>

\* broadcastToRoom up to its loop: without a room of the booking it returns
\* at once, else it ranges over the clients of the room
broadcastToRoom(m) ==
    IF m.bookingID \in DOMAIN rooms
    THEN hubPc' = "deliver" /\ hubData' = m /\ hubRange' = rooms[m.bookingID]
    ELSE UNCHANGED <<hubPc, hubData, hubRange>>

\* Run: case update := <-h.broadcast
HubBroadcast ==
    /\ hubPc = "select"
    /\ broadcast # << >>
    /\ broadcast' = Receive(broadcast).rest
    /\ broadcastToRoom(Receive(broadcast).value)
    /\ UNCHANGED <<rooms, chatBcast, Send, sendClosed, droppedAt, connVars, callVars,
                   unregisterCalls, live, svcVars, envVars, aggVars>>

\* Run: case chatMsg := <-h.chatBcast
HubChat ==
    /\ hubPc = "select"
    /\ chatBcast # << >>
    /\ chatBcast' = Receive(chatBcast).rest
    /\ broadcastToRoom(Receive(chatBcast).value)
    /\ UNCHANGED <<rooms, broadcast, Send, sendClosed, droppedAt, connVars, callVars,
                   unregisterCalls, live, svcVars, envVars, aggVars>>

\* the loop of broadcastToRoom has visited its last client
EndOfRange(c) ==
    /\ hubRange' = hubRange \ {c}
    /\ IF hubRange \ {c} = {}
       THEN hubPc' = "select" /\ hubData' = NoMsg
       ELSE UNCHANGED <<hubPc, hubData>>

\* the send of broadcastToRoom as a plain send, which waits for room in the queue
DeliverBlocking(c) ==
    /\ hubPc = "deliver"
    /\ c \in hubRange
    /\ ~sendClosed[c]
    /\ Len(Send[c]) < SendCap
    /\ Send' = [Send EXCEPT ![c] = Append(@, hubData)]
    /\ EndOfRange(c)
    /\ UNCHANGED <<rooms, sendClosed, droppedAt, broadcast, chatBcast, connVars, callVars,
                   unregisterCalls, live, svcVars, envVars, aggVars>>

\* the loop of broadcastToRoom ending at the first full queue
DeliverStopsAtFull(c) ==
    /\ hubPc = "deliver"
    /\ c \in hubRange
    /\ IF sendClosed[c]
       THEN /\ hubPc' = "panic"
            /\ UNCHANGED <<rooms, Send, sendClosed, hubData, hubRange, droppedAt>>
       ELSE IF Len(Send[c]) < SendCap
       THEN /\ Send' = [Send EXCEPT ![c] = Append(@, hubData)]
            /\ EndOfRange(c)
            /\ UNCHANGED <<rooms, sendClosed, droppedAt>>
       ELSE /\ rooms' = RoomRemove(hubData.bookingID, c)
            /\ sendClosed' = [sendClosed EXCEPT ![c] = TRUE]
            /\ droppedAt' = [droppedAt EXCEPT ![c] = hubData.id]
            /\ hubRange' = {} /\ hubPc' = "select" /\ hubData' = NoMsg
            /\ Send' = Send
    /\ UNCHANGED <<broadcast, chatBcast, connVars, callVars, unregisterCalls, live, svcVars, envVars,
                   aggVars>>

\* broadcastToRoom closing the full queue of a client that it leaves in the room
DeliverClosesKeepsMember(c) ==
    /\ hubPc = "deliver"
    /\ c \in hubRange
    /\ IF sendClosed[c]
       THEN /\ hubPc' = "panic"
            /\ UNCHANGED <<rooms, Send, sendClosed, hubData, hubRange, droppedAt>>
       ELSE IF Len(Send[c]) < SendCap
       THEN /\ Send' = [Send EXCEPT ![c] = Append(@, hubData)]
            /\ EndOfRange(c)
            /\ UNCHANGED <<rooms, sendClosed, droppedAt>>
       ELSE /\ rooms' = rooms
            /\ sendClosed' = [sendClosed EXCEPT ![c] = TRUE]
            /\ droppedAt' = [droppedAt EXCEPT ![c] = hubData.id]
            /\ EndOfRange(c)
            /\ Send' = Send
    /\ UNCHANGED <<broadcast, chatBcast, connVars, callVars, unregisterCalls, live,
                   svcVars, envVars, aggVars>>

\* broadcastToRoom, one turn of its loop: the message goes into the client's queue
\* when there is room; when the queue is full the client leaves the room and its
\* queue is closed
Deliver(c) ==
    /\ hubPc = "deliver"
    /\ c \in hubRange
    /\ IF sendClosed[c]
       THEN /\ hubPc' = "panic"
            /\ UNCHANGED <<rooms, Send, sendClosed, hubData, hubRange, droppedAt>>
       ELSE IF Len(Send[c]) < SendCap
       THEN /\ Send' = [Send EXCEPT ![c] = Append(@, hubData)]
            /\ EndOfRange(c)
            /\ UNCHANGED <<rooms, sendClosed, droppedAt>>
       ELSE /\ rooms' = RoomRemove(hubData.bookingID, c)
            /\ sendClosed' = [sendClosed EXCEPT ![c] = TRUE]
            /\ droppedAt' = [droppedAt EXCEPT ![c] = hubData.id]
            /\ EndOfRange(c)
            /\ Send' = Send
    /\ UNCHANGED <<broadcast, chatBcast, connVars, callVars, unregisterCalls, live, svcVars,
                   envVars, aggVars>>

\* WritePump: case message, ok := <-c.Send with a message
WritePumpReceive(c) ==
    /\ writePump[c] = "select"
    /\ Send[c] # << >>
    /\ frame' = [frame EXCEPT ![c] = <<Receive(Send[c]).value>>]
    /\ Send' = [Send EXCEPT ![c] = Receive(Send[c]).rest]
    /\ writePump' = [writePump EXCEPT ![c] = "write"]
    /\ UNCHANGED <<rooms, broadcast, chatBcast, sendClosed, hubPc, hubData, hubRange,
                   droppedAt, readPump, connClosed, wire, callVars, unregisterCalls, live, svcVars,
                   envVars, aggVars>>

\* the write of WritePump with the queued messages put before the received one
WritePumpWriteQueuedFirst(c) ==
    /\ writePump[c] = "write"
    /\ Send' = [Send EXCEPT ![c] = << >>]
    /\ frame' = [frame EXCEPT ![c] = << >>]
    /\ \E ok \in (IF connClosed[c] THEN {FALSE} ELSE BOOLEAN) :
         IF ok
         THEN /\ wire' = [wire EXCEPT ![c] = @ \o Send[c] \o frame[c]]
              /\ writePump' = [writePump EXCEPT ![c] = "select"]
              /\ connClosed' = connClosed
         ELSE /\ writePump' = [writePump EXCEPT ![c] = "done"]
              /\ connClosed' = [connClosed EXCEPT ![c] = TRUE]
              /\ wire' = wire
    /\ UNCHANGED <<rooms, broadcast, chatBcast, sendClosed, hubPc, hubData, hubRange,
                   droppedAt, readPump, callVars, unregisterCalls, live, svcVars, envVars, aggVars>>

\* WritePump: the messages queued by now join the message received, and the frame
\* is written; when NextWriter or Close fails the pump returns and closes the
\* connection
WritePumpWrite(c) ==
    /\ writePump[c] = "write"
    /\ Send' = [Send EXCEPT ![c] = << >>]
    /\ frame' = [frame EXCEPT ![c] = << >>]
    /\ \E ok \in (IF connClosed[c] THEN {FALSE} ELSE BOOLEAN) :
         IF ok
         THEN /\ wire' = [wire EXCEPT ![c] = @ \o frame[c] \o Send[c]]
              /\ writePump' = [writePump EXCEPT ![c] = "select"]
              /\ connClosed' = connClosed
         ELSE /\ writePump' = [writePump EXCEPT ![c] = "done"]
              /\ connClosed' = [connClosed EXCEPT ![c] = TRUE]
              /\ wire' = wire
    /\ UNCHANGED <<rooms, broadcast, chatBcast, sendClosed, hubPc, hubData, hubRange,
                   droppedAt, readPump, callVars, unregisterCalls, live, svcVars, envVars, aggVars>>

\* WritePump leaving at the closed queue with a call of hub.Unregister of its own
WritePumpClosedUnregisters(c) ==
    /\ writePump[c] = "select"
    /\ Send[c] = << >>
    /\ sendClosed[c]
    /\ writePump' = [writePump EXCEPT ![c] = "done"]
    /\ connClosed' = [connClosed EXCEPT ![c] = TRUE]
    /\ unregisterCalls' = [unregisterCalls EXCEPT ![c] = @ + 1]
    /\ UNCHANGED <<hubState, readPump, frame, wire, callVars, live, svcVars,
                   envVars, aggVars>>

\* WritePump: case message, ok := <-c.Send with !ok, the queue closed and empty:
\* the close message is written, the pump returns and closes the connection
WritePumpClosed(c) ==
    /\ writePump[c] = "select"
    /\ Send[c] = << >>
    /\ sendClosed[c]
    /\ writePump' = [writePump EXCEPT ![c] = "done"]
    /\ connClosed' = [connClosed EXCEPT ![c] = TRUE]
    /\ UNCHANGED <<hubState, readPump, frame, wire, callVars, unregisterCalls, live, svcVars,
                   envVars, aggVars>>

\* WritePump: case <-ticker.C with the ping failing: the pump returns and closes
\* the connection
WritePumpPingFail(c) ==
    /\ writePump[c] = "select"
    /\ writePump' = [writePump EXCEPT ![c] = "done"]
    /\ connClosed' = [connClosed EXCEPT ![c] = TRUE]
    /\ UNCHANGED <<hubState, readPump, frame, wire, callVars, unregisterCalls, live, svcVars,
                   envVars, aggVars>>

\* ------------------------------------------------------------- specifications
\* all but the two tables
InitOther ==
    /\ hubLog = << >>
    /\ published = << >>
    /\ pc = [p \in Procs |-> "idle"]
    /\ inv = [p \in Procs |-> NoInv]
    /\ track = [p \in Procs |-> NoTrack]
    /\ wpt = [p \in Procs |-> NoWaypoint]
    /\ started = 0
    /\ last = NoReturn
    /\ storeErr = [p \in Procs |-> FALSE]
    /\ agg = NoTrack
    /\ aggOp = NoOp
    /\ aggErr = NoErr
    /\ calls = 0
    /\ fnCall = NoCall
    /\ fnResult = NoResult
    /\ rooms = [b \in {} |-> {}]
    /\ broadcast = << >>
    /\ chatBcast = << >>
    /\ Send = [c \in Clients |-> << >>]
    /\ sendClosed = [c \in Clients |-> FALSE]
    /\ hubPc = "select"
    /\ hubData = NoMsg
    /\ hubRange = {}
    /\ droppedAt = [c \in Clients |-> 0]
    /\ readPump = [c \in Clients |-> "new"]
    /\ writePump = [c \in Clients |-> "new"]
    /\ frame = [c \in Clients |-> << >>]
    /\ connClosed = [c \in Clients |-> FALSE]
    /\ wire = [c \in Clients |-> << >>]
    /\ callPc = [k \in Callers |-> "idle"]
    /\ callMsg = [k \in Callers |-> NoMsg]
    /\ issued = 0
    /\ unregisterCalls = [c \in Clients |-> 0]

\* the tables are empty
InitCommon == InitOther /\ tracks = {} /\ waypoints = << >>

\* handlers run concurrently; the store and the bus work
Init == InitCommon /\ faulty = FALSE /\ serial = FALSE /\ live = {}
\* events are handled one after another; any store call and any publish may fail
InitFaults == InitCommon /\ faulty = TRUE /\ serial = TRUE /\ live = {}
\* events are handled one after another; the store and the bus work
InitSerial == InitCommon /\ faulty = FALSE /\ serial = TRUE /\ live = {}
\* the hub: connections are opened, the service is not looked at
InitHub == InitCommon /\ faulty = FALSE /\ serial = FALSE /\ live \in Populations
\* the hub with a single connection
InitHubAlone == InitCommon /\ faulty = FALSE /\ serial = FALSE /\ live = {"c1"}

Next ==
    \E p \in Procs :
        \/ \E m \in Messages : ConsumerIgnore(p, m)
        \/ \E b \in Bookings, r \in Runners : BookingAcceptedFind(p, b, r)
        \/ BookingAcceptedSave(p)
        \/ BookingAcceptedPublish(p)
        \/ \E r \in Runners, lat \in Lats, lng \in Lngs, ts \in Times :
              LocationUpdateFind(p, r, lat, lng, ts)
        \/ LocationUpdateAdd(p)
        \/ LocationUpdateBroadcast(p)
        \/ LocationUpdatePublish(p)
        \/ \E b \in Bookings : DeliveryConfirmedFind(p, b)
        \/ DeliveryConfirmedComplete(p)
        \/ DeliveryConfirmedUpdate(p)
        \/ DeliveryConfirmedPublish(p)

NextAggregate ==
    \E now \in Times :
        \/ \E b \in Bookings, r \in Runners : AggNew(b, r, now)
        \/ \E d \in Distances : AggComplete(d, now)
        \/ AggCancel(now)
        \/ AggIncrementVersion(now)

\* the service with a working store and bus
Spec == Init /\ [][Next]_vars
\* the service with store and bus failures
SpecFaults == InitFaults /\ [][Next]_vars
\* the service handling one event at a time
SpecSerial == InitSerial /\ [][Next]_vars
\* the aggregate under any sequence of calls of its methods
SpecAggregate == Init /\ [][NextAggregate]_vars
\* two bookings have been accepted
RouteTracks == {NewTripTrack(1, "B1", "R1", 1), NewTripTrack(2, "B2", "R2", 1)}
\* the waypoint rows location updates may have left for them
RouteRows ==
    {WaypointRow(t.id, NewWaypoint(lat, lng, 0, 0, ts).wp) :
        t \in RouteTracks,
        lat \in {x \in Lats : x <= 90}, lng \in {x \in Lngs : x <= 180}, ts \in Times}
\* the waypoints table after at most MaxRows location updates, in insertion order
InitRoute ==
    /\ InitOther
    /\ faulty = FALSE /\ serial = FALSE /\ live = {}
    /\ tracks = RouteTracks
    /\ waypoints \in UNION {[1..n -> RouteRows] : n \in 0..MaxRows}

NextRoute == \E t \in RouteTracks : RouteExport(t.id)

\* route export over any stored waypoints
SpecRoute == InitRoute /\ [][NextRoute]_vars

NextWaypoint ==
    \E lat \in Latitudes, lng \in Longitudes, speed \in Speeds, heading \in Headings,
       recordedAt \in Times :
        NewWaypointCall(lat, lng, speed, heading, recordedAt)

\* NewWaypoint under any sequence of calls
SpecWaypoint == Init /\ [][NextWaypoint]_vars

\* the steps of Hub.Run
NextRun ==
    \/ \E c \in Clients : HubRegister(c)
    \/ \E c \in Clients : HubUnregister(c)
    \/ HubBroadcast
    \/ HubChat
    \/ \E c \in Clients : Deliver(c)

\* the steps of the connections' pumps
NextPumps ==
    \E c \in Clients :
        \/ ReadPumpFail(c)
        \/ ReadPumpClose(c)
        \/ WritePumpReceive(c)
        \/ WritePumpWrite(c)
        \/ WritePumpClosed(c)
        \/ WritePumpPingFail(c)

\* the steps of the hub's callers
NextCallers ==
    \E k \in Callers :
        \/ \E kind \in Kinds, b \in Bookings : HubCall(k, kind, b)
        \/ Broadcast(k)
        \/ BroadcastChat(k)

NextHub == NextRun \/ NextPumps \/ NextCallers

\* the hub with its connections and callers
SpecHub == InitHub /\ [][NextHub]_vars

\* Run is scheduled: a pass of broadcastToRoom goes on, and a case of the select
\* that is ready again and again is taken (select picks at random among the
\* ready cases)
FairRun ==
    /\ WF_vars(\E c \in Clients : Deliver(c))
    /\ WF_vars(HubBroadcast)
    /\ WF_vars(HubChat)
\* a caller waiting at a channel is served when the buffer has room again and
\* again (the senders waiting at a channel are served in the order they came)
FairCallers ==
    \A k \in Callers : WF_vars(Broadcast(k)) /\ WF_vars(BroadcastChat(k))

\* the hub with a single connection, Run and the callers scheduled fairly; nothing
\* is asked of the connection's pumps, which may never take a message from the
\* queue
SpecHubFair == InitHubAlone /\ [][NextHub]_vars /\ FairRun /\ FairCallers

\* the unregister case of Run is taken when a client waits at h.unregister
FairUnregister == \A c \in Clients : WF_vars(HubUnregister(c))
\* the pumps are scheduled: ReadMessage on a closed connection returns an error,
\* the deferred calls of ReadPump run, WritePump takes what its queue holds or
\* learns that it is closed, and a write ends, done or failed, within writeWait.
\* Nothing makes a read or a ping fail on a connection that is open.
FairPumps ==
    \A c \in Clients :
        /\ WF_vars(connClosed[c] /\ ReadPumpFail(c))
        /\ WF_vars(ReadPumpClose(c))
        /\ WF_vars(WritePumpReceive(c))
        /\ WF_vars(WritePumpWrite(c))
        /\ WF_vars(WritePumpClosed(c))

\* the hub with a single connection, Run and the pumps scheduled fairly
SpecHubTeardown ==
    InitHubAlone /\ [][NextHub]_vars /\ FairRun /\ FairUnregister /\ FairPumps

\* the service, or the aggregate used directly: the two share no variable, so a
\* behaviour exercises one of them
NextAll == (calls = 0 /\ Next) \/ (started = 0 /\ NextAggregate)
SpecAll == Init /\ [][NextAll]_vars

\* booking B1 has been accepted for runner R1; the key is one that no invocation
\* of the behaviour draws for a new track
TrackedTrack == NewTripTrack(MaxInvocations + 1, "B1", "R1", 1)
\* one location update of R1 has been stored for it
TrackedRows == << WaypointRow(TrackedTrack.id, NewWaypoint(1, 1, 0, 0, 1).wp) >>
\* the service with a track under way: the tables as HandleBookingAccepted and one
\* HandleRunnerLocationUpdate leave them; handlers run concurrently, the store
\* and the bus work
InitTracked ==
    /\ InitOther
    /\ faulty = FALSE /\ serial = FALSE /\ live = {}
    /\ tracks = {TrackedTrack}
    /\ waypoints = TrackedRows
SpecTracked == InitTracked /\ [][Next]_vars

\* ------------------------------------------------------------- properties
Terminal(status) == status \in {TrackingCompleted, TrackingCancelled}

\* the stored rows of a booking, and the stored active rows of a runner
RowsOfBooking(b) == {r \in tracks : r.bookingID = b}
ActiveRowsOfRunner(r) == {t \in tracks : t.runnerID = r /\ t.status = TrackingActive}

\* this step hands p an event for handler h
Invoked(p, h) ==
    /\ pc[p] = "idle"
    /\ started' = started + 1
    /\ \/ inv'[p].h = h
       \/ last'.p = p /\ last'.from = "idle" /\ last'.ev.h = h
\* the event handed over in a step that invokes p
InvokedEvent(p) == IF inv'[p] # NoInv THEN inv'[p] ELSE last'.ev

\* this step is a call of method op on the free-standing aggregate
Called(op) == calls' = calls + 1 /\ aggOp'.op = op

\* C1: a status only moves active->completed or active->cancelled; once a track,
\* stored or in memory, is completed or cancelled, no step of a handler and no
\* call of Complete, Cancel or IncrementVersion changes its status.
C1_StatusStep ==
    /\ \A r \in tracks :
         /\ \E r2 \in tracks' : r2.id = r.id
         /\ \A r2 \in tracks' :
              (r2.id = r.id /\ r2.status # r.status)
                 => (r.status = TrackingActive /\ Terminal(r2.status))
    /\ \A p \in Procs :
         (Terminal(track[p].status) /\ track'[p] # NoTrack)
            => track'[p].status = track[p].status
    /\ (agg # NoTrack /\ ~Called("NewTripTrack") /\ agg'.status # agg.status)
          => (agg.status = TrackingActive /\ Terminal(agg'.status))
C1_TerminalStatusIsFinal == [][C1_StatusStep]_vars
\* two handlers have both written the completion of the same track: the second
\* write met a stored row that was already completed
C1_Witness ==
    \E p, q \in Procs :
        /\ p # q
        /\ pc[p] = "dc_publish" /\ pc[q] = "dc_publish"
        /\ track[p].id = track[q].id
        /\ \E r \in tracks : r.id = track[p].id /\ r.status = TrackingCompleted

\* C2: Complete or Cancel on a track that is not active returns the invalid-state
\* error naming the current status and the attempted target, and leaves every
\* field of the track as it was.
C2_RejectedStep ==
    /\ (Called("Complete") /\ agg.status # TrackingActive)
          => (agg' = agg /\ aggErr' = InvalidStateError(agg.status, TrackingCompleted))
    /\ (Called("Cancel") /\ agg.status # TrackingActive)
          => (agg' = agg /\ aggErr' = InvalidStateError(agg.status, TrackingCancelled))
C2_NonActiveRejected == [][C2_RejectedStep]_vars
\* Cancel was called on a completed track and was rejected
C2_Witness ==
    /\ aggOp.op = "Cancel"
    /\ agg.status = TrackingCompleted
    /\ aggErr = InvalidStateError(TrackingCompleted, TrackingCancelled)

\* C3: a successful Complete(distance) sets status completed, stores the distance,
\* sets the completion time and raises the version by one; a successful Cancel
\* sets status cancelled and raises the version by one.
C3_SuccessStep ==
    /\ (Called("Complete") /\ agg.status = TrackingActive)
          => /\ aggErr' = NoErr
             /\ agg'.status = TrackingCompleted
             /\ agg'.totalDistanceKm = aggOp'.distance
             /\ agg'.completedAt # NoTime
             /\ agg'.version = agg.version + 1
    /\ (Called("Cancel") /\ agg.status = TrackingActive)
          => /\ aggErr' = NoErr
             /\ agg'.status = TrackingCancelled
             /\ agg'.version = agg.version + 1
C3_CompleteCancelBumpVersion == [][C3_SuccessStep]_vars

\* the published events of one type about one booking
PublishedOf(type, b) ==
    {i \in 1..Len(published) : published[i].type = type /\ published[i].bookingID = b}

C5_UpdateStep ==
    \A p \in Procs :
      (pc[p] = "dc_update" /\ pc'[p] # "dc_update")
         => \A stored \in {r \in tracks : r.id = track[p].id} :
              IF stored.version = track[p].version
              THEN tracks' = (tracks \ {stored}) \cup {track[p]} /\ pc'[p] = "dc_publish"
              ELSE tracks' = tracks /\ last'.p = p /\ last'.err = "error"
C6_VersionStep ==
    /\ \A r2 \in tracks' :
         (\A r \in tracks : r.id # r2.id) => r2.version = 1
    /\ \A r \in tracks : \A r2 \in tracks' :
         r2.id = r.id =>
            /\ r2.version >= r.version
            /\ r2.status # r.status => r2.version > r.version
C6_VersionMonotonic == [][C6_VersionStep]_vars

\* C7: however HandleBookingAccepted invocations for one booking interleave, the
\* store never holds two tracks of that booking, and holds exactly one when such an
\* invocation has returned.
C7_OneTrackPerBooking ==
    /\ \A b \in Bookings : Cardinality(RowsOfBooking(b)) <= 1
    /\ last.ev.h = "BookingAccepted"
          => Cardinality(RowsOfBooking(last.ev.bookingID)) = 1
\* an invocation passed the existence check, then lost the insert to another one
C7_Witness ==
    /\ last.ev.h = "BookingAccepted"
    /\ last.from = "ba_save"
    /\ last.err = "error"
    /\ \E r \in tracks : r.bookingID = last.ev.bookingID /\ r.id # last.ev.n

\* C8: HandleBookingAccepted for a booking that has a stored track, whatever its
\* status, returns nil at once, stores nothing, changes no row and publishes
\* nothing.
C8_NoOpStep ==
    \A p \in Procs :
      (Invoked(p, "BookingAccepted") /\ RowsOfBooking(InvokedEvent(p).bookingID) # {})
         => /\ last'.p = p /\ last'.err = "nil"
            /\ pc'[p] = "idle"
            /\ tracks' = tracks
            /\ waypoints' = waypoints
            /\ published' = published
C8_AcceptedAgainIsNoOp == [][C8_NoOpStep]_vars
\* the event came again for a booking whose track is already completed
C8_Witness ==
    /\ last.ev.h = "BookingAccepted"
    /\ last.from = "idle"
    /\ last.err = "nil"
    /\ \E r \in tracks : r.bookingID = last.ev.bookingID /\ r.status = TrackingCompleted

\* C9: in every store state each runner has at most one active track.
C9_OneActiveTrackPerRunner ==
    \A r \in Runners : Cardinality(ActiveRowsOfRunner(r)) <= 1

\* C10: HandleRunnerLocationUpdate for a runner without an active track returns
\* nil, stores no waypoint, hands nothing to the hub and publishes nothing.
C10_IgnoredStep ==
    \A p \in Procs :
      (Invoked(p, "RunnerLocationUpdate") /\ ActiveRowsOfRunner(InvokedEvent(p).runnerID) = {})
         => /\ last'.p = p /\ last'.err = "nil"
            /\ pc'[p] = "idle"
            /\ tracks' = tracks
            /\ waypoints' = waypoints
            /\ hubLog' = hubLog
            /\ published' = published
C10_NoActiveTrackIgnored == [][C10_IgnoredStep]_vars
\* a valid location of a runner without an active track was ignored while another
\* runner had one
C10_Witness ==
    /\ last.ev.h = "RunnerLocationUpdate"
    /\ last.from = "idle"
    /\ last.err = "nil"
    /\ NewWaypoint(last.ev.lat, last.ev.lng, 0, 0, last.ev.ts).ok
    /\ ActiveRowsOfRunner(last.ev.runnerID) = {}
    /\ \E t \in tracks : t.status = TrackingActive

\* a latitude and longitude inside the ranges of a geographic coordinate
ValidCoordinates(lat, lng) == lat >= -90 /\ lat <= 90 /\ lng >= -180 /\ lng <= 180

\* C11: HandleRunnerLocationUpdate with a latitude or longitude outside its range
\* returns nil, stores no waypoint, hands nothing to the hub and publishes nothing,
\* and leaves the store as it was, so that a valid update of the same runner that
\* follows is taken on: with an active track it goes on to store its waypoint.
C11_DropStep ==
    \A p \in Procs :
      Invoked(p, "RunnerLocationUpdate") =>
        LET e == InvokedEvent(p)
        IN IF ~ValidCoordinates(e.lat, e.lng)
           THEN /\ last'.p = p /\ last'.err = "nil"
                /\ pc'[p] = "idle"
                /\ tracks' = tracks
                /\ waypoints' = waypoints
                /\ hubLog' = hubLog
                /\ published' = published
           ELSE ActiveRowsOfRunner(e.runnerID) # {}
                   => /\ pc'[p] = "lu_add"
                      /\ wpt'[p].latitude = e.lat /\ wpt'[p].longitude = e.lng
                      /\ track'[p] \in ActiveRowsOfRunner(e.runnerID)
C11_InvalidLocationDropped == [][C11_DropStep]_vars
\* an update with an invalid coordinate was dropped for a runner who has an active
\* track
C11_Witness ==
    /\ last.ev.h = "RunnerLocationUpdate"
    /\ last.from = "idle"
    /\ last.err = "nil"
    /\ ~ValidCoordinates(last.ev.lat, last.ev.lng)
    /\ ActiveRowsOfRunner(last.ev.runnerID) # {}

\* C12: HandleDeliveryConfirmed for a booking without a stored track returns an
\* error, changes no row and no waypoint, and publishes nothing.
C12_MissingStep ==
    \A p \in Procs :
      (Invoked(p, "DeliveryConfirmed") /\ RowsOfBooking(InvokedEvent(p).bookingID) = {})
         => /\ last'.p = p /\ last'.err = "error"
            /\ pc'[p] = "idle"
            /\ tracks' = tracks
            /\ waypoints' = waypoints
            /\ hubLog' = hubLog
            /\ published' = published
C12_MissingTrackIsError == [][C12_MissingStep]_vars
\* the confirmation of a booking without a track failed while the other booking
\* had an active track
C12_Witness ==
    /\ last.ev.h = "DeliveryConfirmed"
    /\ last.from = "idle"
    /\ last.err = "error"
    /\ RowsOfBooking(last.ev.bookingID) = {}
    /\ \E t \in tracks : t.status = TrackingActive

\* C13: HandleDeliveryConfirmed for a booking whose stored track is completed or
\* cancelled returns nil, writes nothing and publishes no tracking.completed: the
\* redelivered event leaves status, distance, completion time and version of the
\* row as they were.
C13_RedeliveredStep ==
    \A p \in Procs :
      ( /\ Invoked(p, "DeliveryConfirmed")
        /\ RowsOfBooking(InvokedEvent(p).bookingID) # {}
        /\ \A r \in RowsOfBooking(InvokedEvent(p).bookingID) : Terminal(r.status) )
         => /\ last'.p = p /\ last'.err = "nil"
            /\ pc'[p] = "idle"
            /\ tracks' = tracks
            /\ waypoints' = waypoints
            /\ published' = published
C13_RedeliveredIsNoOp == [][C13_RedeliveredStep]_vars
\* the confirmation came again after the first one had completed the track and
\* published tracking.completed
C13_Witness ==
    /\ last.ev.h = "DeliveryConfirmed"
    /\ last.from = "idle"
    /\ last.err = "nil"
    /\ \E r \in tracks : r.bookingID = last.ev.bookingID /\ r.status = TrackingCompleted
    /\ Cardinality(PublishedOf("tracking.completed", last.ev.bookingID)) = 1

\* the labels at which a handler publishes its notification
PublishLabels == {"ba_publish", "lu_publish", "dc_publish"}

\* C14: in each of the three handlers a publish that fails leaves what the handler
\* stored in the store, and the handler returns nil.
C14_PublishFailStep ==
    \A p \in Procs :
      (pc[p] \in PublishLabels /\ pc'[p] = "idle" /\ published' = published)
         => /\ last'.p = p /\ last'.err = "nil"
            /\ tracks' = tracks
            /\ waypoints' = waypoints
            /\ hubLog' = hubLog
            /\ pc[p] \in {"ba_publish", "dc_publish"} => track[p] \in tracks'
            /\ pc[p] = "lu_publish" =>
                  \E i \in 1..Len(waypoints') :
                     waypoints'[i] = WaypointRow(track[p].id, wpt[p])
C14_PublishFailureIsSwallowed == [][C14_PublishFailStep]_vars
\* the track was completed in the store, the publish of tracking.completed failed
\* and the handler returned nil
C14_Witness ==
    /\ last.ev.h = "DeliveryConfirmed"
    /\ last.from = "dc_publish"
    /\ last.err = "nil"
    /\ PublishedOf("tracking.completed", last.ev.bookingID) = {}
    /\ \E r \in tracks : r.bookingID = last.ev.bookingID /\ r.status = TrackingCompleted

\* C15: a handler that returns after one of its store calls (a lookup failing for
\* another reason than not-found, Save, AddWaypoint, GetWaypoints, Update) returned
\* an error, returns an error.
C15_StoreFailurePropagates ==
    \A p \in Procs :
      (last.p = p /\ last.storeErr) => last.err = "error"

\* the tracking.completed events about booking b in the sequence of events evs
CompletedEvents(evs, b) ==
    {i \in 1..Len(evs) : evs[i].type = "tracking.completed" /\ evs[i].bookingID = b}

\* p and another handler goroutine both hold the track they loaded while it was
\* active, on their way to repo.Update
Racing(p) ==
    \E q \in Procs :
        /\ q # p
        /\ pc[p] = "dc_update"
        /\ pc[q] \in {"dc_waypoints", "dc_update", "dc_publish"}
        /\ track[q].id = track[p].id

\* C16: when two HandleDeliveryConfirmed invocations of one booking have both
\* loaded the track while it was active, the Update that comes first, on the row
\* still active, is applied and completes the track; the one that comes second, on
\* the row already completed, is rejected and changes no row; and at most one
\* tracking.completed event of the booking is published.
C16_RaceStep ==
    /\ \A p \in Procs :
         (Racing(p) /\ pc'[p] # "dc_update")
            => \A r \in {x \in tracks : x.id = track[p].id} :
                  IF r.status = TrackingActive
                  THEN tracks' = (tracks \ {r}) \cup {track[p]} /\ pc'[p] = "dc_publish"
                  ELSE tracks' = tracks /\ last'.p = p /\ last'.err = "error"
    /\ \A b \in Bookings : Cardinality(CompletedEvents(published', b)) <= 1
C16_StaleWriterRejected == [][C16_RaceStep]_vars

\* the clients of the room of booking b in the room map rm, none when the map has
\* no such room
RoomIn(rm, b) == IF b \in DOMAIN rm THEN rm[b] ELSE {}
Room(b) == RoomIn(rooms, b)

\* C17: an unregister request taken by Run for a connection that is not in the
\* room of its booking changes neither the room map nor any queue, closes nothing
\* and leaves Run at its select.
C17_UnregisterStep ==
    \A c \in Clients :
      ( /\ readPump[c] = "unregister" /\ readPump'[c] = "close"
        /\ c \notin Room(BookingOf(c)) )
         => /\ rooms' = rooms
            /\ Send' = Send
            /\ sendClosed' = sendClosed
            /\ broadcast' = broadcast /\ chatBcast' = chatBcast
            /\ hubPc' = "select"
C17_UnregisterIdempotent == [][C17_UnregisterStep]_vars
\* the unregister request of a connection that broadcastToRoom had removed for
\* its full queue has been taken, while its room holds another connection
C17_Witness ==
    \E c \in Clients :
        /\ droppedAt[c] # 0
        /\ readPump[c] = "close"
        /\ hubPc = "select"
        /\ Room(BookingOf(c)) # {}

\* the messages a connection has been given: those written to it, those its
\* WritePump holds for the next write and those in its queue, oldest first
Given(c) == wire[c] \o frame[c] \o Send[c]
\* the ids of the messages in the sequence q
Ids(q) == {q[i].id : i \in 1..Len(q)}

\* C18: a pass of broadcastToRoom visits every connection of the room: at a
\* connection whose queue is full it removes the connection from the room and
\* closes its queue, at any other it appends the message to the queue, and in
\* both cases it goes on to the connections it has not visited yet and touches
\* no queue but the visited one; it returns to the select only when none is left.
C18_DeliverStep ==
    /\ (hubPc = "select" /\ hubPc' = "deliver")
          => hubRange' = RoomIn(rooms', hubData'.bookingID)
    /\ (hubPc = "deliver" /\ hubPc' = "select") => hubRange' = {}
    /\ \A c \in Clients :
         (hubPc = "deliver" /\ c \in hubRange /\ c \notin hubRange')
            => /\ IF Len(Send[c]) >= SendCap
                  THEN /\ c \notin RoomIn(rooms', hubData.bookingID)
                       /\ sendClosed'[c]
                       /\ Send'[c] = Send[c]
                  ELSE /\ Send'[c] = Append(Send[c], hubData)
                       /\ ~sendClosed'[c]
                       /\ rooms' = rooms
               /\ hubRange' = hubRange \ {c}
               /\ \A d \in Clients \ {c} :
                     /\ sendClosed'[d] = sendClosed[d]
                     /\ d \in Room(hubData.bookingID)
                           => d \in RoomIn(rooms', hubData.bookingID)
                     /\ Send'[d] = Send[d]
C18_SlowConsumerDroppedOthersServed == [][C18_DeliverStep]_vars
\* a pass is over in which one connection of a room was removed for its full queue
\* and another connection of the room was given the message
C18_Witness ==
    \E c, d \in Clients :
        /\ c # d
        /\ BookingOf(c) = BookingOf(d)
        /\ hubPc = "select"
        /\ droppedAt[c] # 0
        /\ sendClosed[c]
        /\ c \notin Room(BookingOf(c))
        /\ droppedAt[c] \in Ids(Given(d))

\* C19: with Run scheduled fairly, every call of Hub.Broadcast and of
\* Hub.BroadcastChat returns and every pass of broadcastToRoom ends, whether or
\* not any connection ever takes a message from its queue.
C19_BroadcastNeverWaitsOnConsumer ==
    /\ \A k \in Callers : (callPc[k] # "idle") ~> (callPc[k] = "idle")
    /\ (hubPc = "deliver") ~> (hubPc = "select")
\* a call of Hub.Broadcast waits at the full channel for a booking whose room
\* holds a connection with a full queue
C19_Witness ==
    \E k \in Callers, c \in Clients :
        /\ callPc[k] = "location_update"
        /\ Len(broadcast) = BroadcastCap
        /\ c \in Room(callMsg[k].bookingID)
        /\ Len(Send[c]) = SendCap

\* in the sequence q a message comes before another one although the call that
\* handed it over began after the call of the other one had returned; sameKind
\* restricts this to two messages of one kind
OutOfOrder(q, sameKind) ==
    \E i, j \in 1..Len(q) :
        /\ i < j
        /\ q[j].id \in q[i].after
        /\ q[i].bookingID = q[j].bookingID
        /\ sameKind => q[i].kind = q[j].kind

C21_Taken ==
    IF Len(broadcast') < Len(broadcast) THEN Head(broadcast) ELSE Head(chatBcast)

C21_EnqueueStep ==
    /\ (hubPc = "select" /\ (Len(broadcast') < Len(broadcast)
                              \/ Len(chatBcast') < Len(chatBcast)))
         => IF RoomIn(rooms, C21_Taken.bookingID) = {}
            THEN hubPc' = "select" /\ Send' = Send
            ELSE /\ hubPc' = "deliver"
                 /\ hubData' = C21_Taken
                 /\ hubRange' = RoomIn(rooms, C21_Taken.bookingID)
    /\ hubPc = "deliver"
         => /\ hubRange' \subseteq hubRange
            /\ \A c \in hubRange \ hubRange' :
                  \/ Len(Send[c]) >= SendCap
                  \/ Send'[c] = Append(Send[c], hubData)
            /\ hubPc' = "select" => hubRange' = {}
            /\ hubPc' = "deliver" => hubData' = hubData

C21_BroadcastReachesRoom == [][C21_EnqueueStep]_vars

\* a pass has ended that put one message into the queues of two connections
C21_Witness ==
    /\ hubPc = "select"
    /\ \E c, d \in Clients :
          /\ c # d
          /\ \E id \in Ids(Send[c]) : id \in Ids(Given(d))

\* q holds no message twice
NoDuplicate(q) == \A i, j \in 1..Len(q) : q[i].id = q[j].id => i = j

\* C22: a connection is given any one message at most once.  A message leaves its
\* channel when Run takes it, so the message of a pass and the messages still in
\* the channels are different messages and none of them is with a connection yet;
\* a queue grows only by the message of the pass at the connection's one turn of
\* that pass; the output task moves messages from the queue to the wire, it
\* copies none; so what a connection holds and has written never shows a message
\* twice.
C22_OnceStep ==
    /\ NoDuplicate(broadcast' \o chatBcast')
    /\ \A id \in Ids(broadcast' \o chatBcast') :
          /\ id # hubData'.id
          /\ \A c \in Clients : id \notin Ids(wire'[c] \o frame'[c] \o Send'[c])
    /\ \A c \in Clients :
          /\ NoDuplicate(wire'[c] \o frame'[c] \o Send'[c])
          /\ Len(Send'[c]) > Len(Send[c])
               => /\ hubPc = "deliver" /\ c \in hubRange /\ c \notin hubRange'
                  /\ Send'[c] = Append(Send[c], hubData)
                  /\ hubData.id \notin Ids(Given(c))
          /\ frame'[c] # frame[c] /\ frame'[c] # << >>
               => /\ Send[c] = frame'[c] \o Send'[c]
                  /\ wire'[c] = wire[c]
          /\ wire'[c] # wire[c]
               => /\ wire'[c] = wire[c] \o frame[c] \o Send[c]
                  /\ frame'[c] = << >> /\ Send'[c] = << >>

C22_DeliveredAtMostOnce == [][C22_OnceStep]_vars

\* two connections of one room have each written the same two messages
C22_Witness ==
    \E c, d \in Clients :
        /\ c # d
        /\ Len(wire[c]) = 2
        /\ Ids(wire[d]) = Ids(wire[c])

\* C23: the room map holds no empty room, and a booking is a key of the map
\* exactly when a connection of that booking has been registered and has neither
\* been unregistered nor dropped since (its queue is closed by either).
C23_Registered(c) == readPump[c] # "new" /\ ~sendClosed[c]

C23_NoEmptyRoom ==
    /\ \A b \in DOMAIN rooms : rooms[b] # {}
    /\ \A b \in Bookings :
          /\ b \in DOMAIN rooms <=> \E c \in Clients : BookingOf(c) = b /\ C23_Registered(c)
          /\ RoomIn(rooms, b) = {c \in Clients : BookingOf(c) = b /\ C23_Registered(c)}

\* the last connection of one booking has left while the room of the other
\* booking stays
C23_Witness ==
    /\ DOMAIN rooms = {"B2"}
    /\ readPump["c1"] # "new"
    /\ sendClosed["c1"]

\* C26: a step that tears a connection down, the unregister case of Run or the
\* drop of a slow consumer, leaves every other connection as it was: in its room
\* or out of it, its queue holding the same messages, open or closed as before.
C26_TornDown(c) ==
    \/ ~sendClosed[c] /\ sendClosed'[c]
    \/ c \in RoomIn(rooms, BookingOf(c)) /\ c \notin RoomIn(rooms', BookingOf(c))
    \/ readPump[c] = "unregister" /\ readPump'[c] = "close"

C26_TeardownStep ==
    \A c \in Clients :
        C26_TornDown(c)
          => \A d \in Clients \ {c} :
                /\ d \in RoomIn(rooms', BookingOf(d)) <=> d \in RoomIn(rooms, BookingOf(d))
                /\ Send'[d] = Send[d]
                /\ sendClosed'[d] = sendClosed[d]

C26_TeardownTouchesOneConnection == [][C26_TeardownStep]_vars

\* a connection has been torn down while another connection of its room is in the
\* room with a message in its queue
C26_Witness ==
    \E c, d \in Clients :
        /\ c # d
        /\ BookingOf(c) = BookingOf(d)
        /\ sendClosed[c]
        /\ d \in Room(BookingOf(d))
        /\ Send[d] # << >>

\* C24: the two tasks of a connection together call hub.Unregister exactly once:
\* never a second time, once both have stopped, and not before one of them has
\* stopped or the input task's read has failed; an output task that stops first
\* leaves the connection closed, which stops the input task.
C24_OneUnregisterPerConnection ==
    \A c \in Clients :
        /\ unregisterCalls[c] <= 1
        /\ readPump[c] = "done" => unregisterCalls[c] = 1
        /\ readPump[c] \in {"new", "reading"} => unregisterCalls[c] = 0
        /\ (writePump[c] = "done" /\ readPump[c] = "reading") => connClosed[c]

\* both tasks of a connection have stopped after the hub closed its queue at a
\* slow-consumer drop, with one call made
C24_Witness ==
    \E c \in Clients :
        /\ droppedAt[c] # 0
        /\ readPump[c] = "done"
        /\ writePump[c] = "done"
        /\ unregisterCalls[c] = 1

\* C25: once the read of a registered connection has failed, or a write or ping
\* of its output task has failed, or the hub has closed its queue, then with Run
\* and the pumps scheduled fairly the connection comes to be in no room with its
\* queue closed and both its tasks ended.
C25_Failing(c) ==
    /\ readPump[c] # "new"
    /\ \/ readPump[c] # "reading"
       \/ writePump[c] = "done"
       \/ sendClosed[c]

C25_TornDown(c) ==
    /\ c \notin RoomIn(rooms, BookingOf(c))
    /\ sendClosed[c]
    /\ readPump[c] = "done"
    /\ writePump[c] = "done"

C25_FailureLeadsToTeardown == \A c \in Clients : C25_Failing(c) ~> C25_TornDown(c)

\* a connection that has written a message is torn down, its queue closed by the
\* unregister case
C25_Witness ==
    \E c \in Clients :
        /\ wire[c] # << >>
        /\ droppedAt[c] = 0
        /\ c \notin RoomIn(rooms, BookingOf(c))
        /\ sendClosed[c]
        /\ readPump[c] = "done"
        /\ writePump[c] = "done"

\* the event types the consumer of a topic handles
C27_Recognized(topic, type) ==
    \/ topic = TopicBookingEvents /\ type \in {BookingAccepted, BookingDeliveryConfirmed}
    \/ topic = TopicRunnerEvents /\ type = RunnerLocationUpdate

\* C27: a message whose event type is not one its topic's consumer handles is
\* answered with nil in the step that takes it, and that step changes no track,
\* no waypoint, nothing of the hub and publishes nothing.
C27_UnhandledStep ==
    \A p \in Procs :
        ( /\ pc[p] = "idle"
          /\ started' = started + 1
          /\ \/ inv'[p] # NoInv
             \/ last'.p = p /\ last'.from = "idle"
          /\ ~C27_Recognized(InvokedEvent(p).topic, InvokedEvent(p).type) )
          => /\ last'.p = p /\ last'.err = "nil"
             /\ pc'[p] = "idle"
             /\ UNCHANGED <<tracks, waypoints, hubLog, published, hubVars>>

C27_UnhandledTypeIgnored == [][C27_UnhandledStep]_vars

\* with an active track stored, the booking consumer has just been handed a
\* location update and the runner consumer's turn has not come
C27_Witness ==
    /\ last.ev.topic = TopicBookingEvents
    /\ last.ev.type = RunnerLocationUpdate
    /\ last.err = "nil"
    /\ \E t \in tracks : t.status = TrackingActive
    /\ waypoints = << >>

\* C30: NewWaypoint returns an error exactly when the latitude is outside
\* [-90,90] or the longitude outside [-180,180]; otherwise the waypoint has the
\* latitude and longitude given, speed 0 for a speed below 0 and the speed given
\* else, heading 0 for a heading below 0 or not below 360 and the heading given
\* else, so that its speed is at least 0 and its heading at least 0 and below 360.
C30_NewWaypointContract ==
    fnCall.op = "NewWaypoint"
      => /\ fnResult.ok <=> ValidCoordinates(fnCall.lat, fnCall.lng)
         /\ fnResult.ok
              => /\ fnResult.wp.latitude = fnCall.lat
                 /\ fnResult.wp.longitude = fnCall.lng
                 /\ fnResult.wp.recordedAt = fnCall.recordedAt
                 /\ fnResult.wp.speed = (IF fnCall.speed < 0 THEN 0 ELSE fnCall.speed)
                 /\ fnResult.wp.heading =
                       (IF fnCall.heading < 0 \/ fnCall.heading >= 360
                        THEN 0 ELSE fnCall.heading)
                 /\ fnResult.wp.speed >= 0
                 /\ fnResult.wp.heading >= 0 /\ fnResult.wp.heading < 360

\* the positions of the rows of track t in the waypoints table
StoredRows(t) == {i \in 1..Len(waypoints) : waypoints[i].tripTrackID = t}

\* C28: route export for a track without waypoints returns the LineString
\* document with an empty coordinate list and no error, whatever the native
\* query did: failed, or gave nothing.
C28_EmptyRouteIsEmptyLineString ==
    (fnCall.op = "GetRouteAsGeoJSON" /\ StoredRows(fnCall.trackID) = {})
      => /\ fnResult.err = FALSE
         /\ fnResult.geoJSON = [type |-> "LineString", coordinates |-> << >>]

\* the route of a track without waypoints was exported with the native query
\* failing, while the other track has waypoints
C28_Witness ==
    /\ fnCall.op = "GetRouteAsGeoJSON"
    /\ StoredRows(fnCall.trackID) = {}
    /\ waypoints # << >>
    /\ fnCall.native.err
    /\ fnResult.err = FALSE

\* C29: route export returns the result of the native query when that query
\* succeeded with a non-empty result; otherwise it returns, without error, the
\* LineString with one [longitude, latitude] pair per stored waypoint of the
\* track, the pairs in the order of the waypoints' recorded times.
C29_RouteIsNativeOrManual ==
    fnCall.op = "GetRouteAsGeoJSON"
      => IF ~fnCall.native.err /\ fnCall.native.geoJSON.type # ""
         THEN fnResult.err = FALSE /\ fnResult.geoJSON = fnCall.native.geoJSON
         ELSE /\ fnResult.err = FALSE
              /\ fnResult.geoJSON.type = "LineString"
              /\ LET idx == StoredRows(fnCall.trackID)
                     n == Cardinality(idx)
                     line == fnResult.geoJSON.coordinates
                 IN /\ Len(line) = n
                    /\ \E f \in [1..n -> idx] :
                          /\ \A i, j \in 1..n : i # j => f[i] # f[j]
                          /\ \A i, j \in 1..n :
                                i < j => waypoints[f[i]].recordedAt
                                            <= waypoints[f[j]].recordedAt
                          /\ \A i \in 1..n :
                                line[i] = <<waypoints[f[i]].longitude,
                                            waypoints[f[i]].latitude>>

\* the manual route of a track whose two waypoints, at different places, were
\* stored with the later one first
C29_Witness ==
    /\ fnCall.op = "GetRouteAsGeoJSON"
    /\ fnCall.native.geoJSON.type = ""
    /\ Len(waypoints) = 2
    /\ waypoints[1].tripTrackID = fnCall.trackID
    /\ waypoints[2].tripTrackID = fnCall.trackID
    /\ waypoints[1].recordedAt > waypoints[2].recordedAt
    /\ waypoints[1].longitude # waypoints[2].longitude
    /\ fnResult.geoJSON.coordinates =
          <<<<waypoints[2].longitude, waypoints[2].latitude>>,
            <<waypoints[1].longitude, waypoints[1].latitude>>>>

\* C31: a track with fewer than two stored waypoints that is completed, in the
\* store or in the hands of a handler that is about to store it, has total
\* distance 0: the distance of no waypoint or of one waypoint is 0.
C31_ShortRouteHasNoDistance ==
    /\ \A t \in tracks :
          (t.status = TrackingCompleted /\ Cardinality(StoredRows(t.id)) < 2)
             => t.totalDistanceKm = 0
    /\ \A p \in Procs :
          ( /\ pc[p] \in {"dc_update", "dc_publish"}
            /\ Cardinality(StoredRows(track[p].id)) < 2 )
             => track[p].totalDistanceKm = 0

\* a completed track is stored whose only waypoint lies one degree east of the
\* meridian
C31_Witness ==
    \E t \in tracks :
        /\ t.status = TrackingCompleted
        /\ Cardinality(StoredRows(t.id)) = 1
        /\ \E i \in StoredRows(t.id) : waypoints[i].longitude = 1
        /\ t.totalDistanceKm = 0

\* the labels of HandleRunnerLocationUpdate after its first step
LocationUpdateLabels == {"lu_add", "lu_bcast", "lu_publish"}

\* C32: no step of HandleRunnerLocationUpdate changes a stored track: the table of
\* tracks, and with it every row's status, total distance, completion time and
\* version, is the same after the step as before, whether the step stores a
\* waypoint, drops the update or does neither.
C32_LocationStep ==
    \A p \in Procs :
        ( \/ Invoked(p, "RunnerLocationUpdate")
          \/ pc[p] \in LocationUpdateLabels /\ pc'[p] # pc[p] )
          => tracks' = tracks

C32_LocationUpdateLeavesTrack == [][C32_LocationStep]_vars

\* a location update has been handled to its end with its waypoint stored, and
\* the track of that waypoint is stored active at version 1
C32_Witness ==
    /\ last.ev.h = "RunnerLocationUpdate"
    /\ last.from = "lu_publish"
    /\ \E i \in 1..Len(waypoints) :
          /\ waypoints[i].recordedAt = last.ev.ts
          /\ \E t \in tracks :
                /\ t.id = waypoints[i].tripTrackID
                /\ t.status = TrackingActive
                /\ t.version = 1

\* C33: stored waypoints are never removed and never changed: after any step the
\* waypoints table holds every row it held before, unchanged and at its place,
\* and at most one new row after them.
C33_AppendStep ==
    /\ Len(waypoints') >= Len(waypoints)
    /\ Len(waypoints') <= Len(waypoints) + 1
    /\ \A i \in 1..Len(waypoints) : waypoints'[i] = waypoints[i]

C33_WaypointsOnlyGrow == [][C33_AppendStep]_vars

\* a track has two stored waypoints
C33_Witness ==
    \E i, j \in 1..Len(waypoints) :
        /\ i < j
        /\ waypoints[i].tripTrackID = waypoints[j].tripTrackID

\* C34: the room map changes only in a step of Run: when Run takes a client from
\* h.register or h.unregister at its select, or drops the client at its turn of a
\* pass.  A step in which a caller begins Broadcast or BroadcastChat or puts its
\* message into a channel, in which ReadPump begins its Unregister call, or in
\* which a pump reads, writes or ends, leaves the map as it is.
C34_OwnerStep ==
    /\ rooms' # rooms
         => \/ /\ hubPc = "select"
               /\ \E c \in Clients :
                     \/ readPump[c] = "new" /\ readPump'[c] = "reading"
                     \/ readPump[c] = "unregister" /\ readPump'[c] = "close"
            \/ /\ hubPc = "deliver"
               /\ \E c \in hubRange : c \notin hubRange'
    /\ ( \/ callPc' # callPc
         \/ issued' # issued
         \/ unregisterCalls' # unregisterCalls
         \/ \E c \in Clients : writePump[c] # "new" /\ writePump'[c] # writePump[c]
         \/ connClosed' # connClosed
         \/ wire' # wire )
         => rooms' = rooms

C34_RoomsOwnedByRun == [][C34_OwnerStep]_vars

\* ReadPump has called Unregister and waits for Run, its connection still in the
\* room next to another one
C34_Witness ==
    \E c, d \in Clients :
        /\ c # d
        /\ readPump[c] = "unregister"
        /\ unregisterCalls[c] = 1
        /\ {c, d} \subseteq RoomIn(rooms, BookingOf(c))

\* C35: Run never closes a queue that is closed and never sends on a closed queue
\* (either would panic), and every connection that is in a room, or that a pass
\* has yet to visit, has an open queue; a queue is closed in the step that takes
\* its connection out of its room, stays closed, and gets no message after that.
C35_QueueState(hpc, rm, range, closed) ==
    /\ hpc # "panic"
    /\ \A b \in DOMAIN rm : \A c \in rm[b] : ~closed[c]
    /\ \A c \in range : ~closed[c]

C35_CloseStep ==
    \A c \in Clients :
        /\ sendClosed[c] => sendClosed'[c] /\ Len(Send'[c]) <= Len(Send[c])
        /\ (~sendClosed[c] /\ sendClosed'[c])
              => c \in RoomIn(rooms, BookingOf(c)) /\ c \notin RoomIn(rooms', BookingOf(c))

C35_QueueClosedOnce ==
    [][ /\ C35_QueueState(hubPc, rooms, hubRange, sendClosed)
        /\ C35_QueueState(hubPc', rooms', hubRange', sendClosed')
        /\ C35_CloseStep ]_vars

\* Run has taken the Unregister of a connection that it had dropped as a slow
\* consumer before, while another connection is in the room
C35_Witness ==
    \E c, d \in Clients :
        /\ c # d
        /\ droppedAt[c] # 0
        /\ readPump[c] = "close"
        /\ sendClosed[c]
        /\ d \in RoomIn(rooms, BookingOf(c))
        /\ hubPc # "panic"

\* the booking of the message Run is working on in this step: the message of the
\* pass, or the message it takes from a channel
C36_Booking ==
    IF hubPc = "deliver" THEN hubData.bookingID
    ELSE IF Len(broadcast') < Len(broadcast) THEN Head(broadcast).bookingID
    ELSE Head(chatBcast).bookingID

\* C36: a step in which Run takes a message of booking B or goes on with the pass
\* for it leaves the connections of every other booking as they were, in their
\* rooms and with their queues; what a connection holds and has written is of
\* its own booking; and taking a message for a booking without a room changes
\* nothing but the channel it came from.
C36_IsolationStep ==
    /\ \A c \in Clients :
          \A i \in 1..Len(wire'[c] \o frame'[c] \o Send'[c]) :
             (wire'[c] \o frame'[c] \o Send'[c])[i].bookingID = BookingOf(c)
    /\ ( \/ hubPc = "deliver" /\ hubRange' # hubRange
         \/ Len(broadcast') < Len(broadcast)
         \/ Len(chatBcast') < Len(chatBcast) )
         => /\ \A d \in Clients :
                  BookingOf(d) # C36_Booking
                    => /\ Send'[d] = Send[d]
                       /\ sendClosed'[d] = sendClosed[d]
                       /\ d \notin hubRange'
                       /\ d \in RoomIn(rooms', BookingOf(d))
                             <=> d \in RoomIn(rooms, BookingOf(d))
            /\ (hubPc = "select" /\ C36_Booking \notin DOMAIN rooms)
                  => UNCHANGED <<rooms, Send, sendClosed, hubPc, hubData, hubRange,
                                 droppedAt>>

C36_BroadcastStaysInRoom == [][C36_IsolationStep]_vars

\* connections of two bookings are in their rooms; one has been given a message,
\* the other has got nothing although a message of a booking was taken
C36_Witness ==
    \E c, d \in Clients :
        /\ BookingOf(c) # BookingOf(d)
        /\ c \in RoomIn(rooms, BookingOf(c))
        /\ d \in RoomIn(rooms, BookingOf(d))
        /\ wire[c] # << >>
        /\ wire[d] \o frame[d] \o Send[d] = << >>
        /\ hubPc = "select"

\* C37: in HandleRunnerLocationUpdate the waypoint is stored before anything is
\* sent out: a step that hands a location update to the hub, or that publishes a
\* tracking.updated event, is taken by a handler whose waypoint row is already in
\* the store, and the update carries that row's position and time; a handler whose
\* AddWaypoint failed returns an error with no broadcast and no event.
C37_SendStep ==
    /\ hubLog' # hubLog =>
         \E p \in Procs :
            /\ pc[p] = "lu_bcast"
            /\ hubLog' = Append(hubLog, TrackingUpdate(track[p], inv[p]))
            /\ \E i \in 1..Len(waypoints) :
                  /\ waypoints[i] = WaypointRow(track[p].id, wpt[p])
                  /\ waypoints[i].latitude = hubLog'[Len(hubLog')].latitude
                  /\ waypoints[i].longitude = hubLog'[Len(hubLog')].longitude
                  /\ waypoints[i].recordedAt = hubLog'[Len(hubLog')].timestamp
    /\ (/\ Len(published') > Len(published)
        /\ published'[Len(published')].type = "tracking.updated") =>
         \E p \in Procs :
            /\ pc[p] = "lu_publish"
            /\ published'[Len(published')].trackID = track[p].id
            /\ \E i \in 1..Len(waypoints) :
                  waypoints[i] = WaypointRow(track[p].id, wpt[p])
            /\ \E i \in 1..Len(hubLog) : hubLog[i] = TrackingUpdate(track[p], inv[p])
    /\ \A p \in Procs :
         (pc[p] = "lu_add" /\ waypoints' = waypoints /\ pc'[p] # pc[p]) =>
            /\ pc'[p] = "idle"
            /\ last'.p = p /\ last'.from = "lu_add" /\ last'.err = "error"
            /\ hubLog' = hubLog
            /\ published' = published
C37_StoredBeforeSent == [][C37_SendStep]_vars
\* one location update was stored, broadcast and published, and the AddWaypoint of
\* a later one failed: the handler returned an error and nothing more was sent
C37_Witness ==
    /\ last.ev.h = "RunnerLocationUpdate"
    /\ last.from = "lu_add"
    /\ last.err = "error"
    /\ Len(waypoints) = 1
    /\ Len(hubLog) = 1
    /\ \E i \in 1..Len(published) : published[i].type = "tracking.updated"

\* C38: under every interleaving of location-update and delivery-confirmed
\* handlers, a step that stores a waypoint for a track finds that track's row in
\* the store with status active: no waypoint is appended to a track whose
\* completion has been persisted.
C38_StoreStep ==
    \A p \in Procs :
      (pc[p] = "lu_add" /\ Len(waypoints') > Len(waypoints))
         => \A r \in tracks :
               r.id = waypoints'[Len(waypoints')].tripTrackID
                  => r.status = TrackingActive
C38_WaypointOnlyWhileActive == [][C38_StoreStep]_vars

\* C39: in every store state a track whose stored status is completed has a stored
\* total distance equal to the total distance computed over all the waypoints
\* stored for it, in an order GetWaypoints may return them.
C39_CompletedDistanceCoversWaypoints ==
    \A r \in tracks :
       r.status = TrackingCompleted
          => \E wps \in GetWaypoints(r.id) :
                r.totalDistanceKm = calculateTotalDistance(wps)

\* C40: lifecycle notifications follow the stored state: a step that publishes
\* tracking.started for a booking is taken by a handler whose track of that
\* booking is in the store, a step that publishes tracking.completed by a handler
\* whose completed track is in the store, so that every published lifecycle event
\* has its row; a handler whose Save or Update failed returns an error and
\* publishes nothing.
C40_LifecycleStep ==
    /\ (/\ Len(published') > Len(published)
        /\ published'[Len(published')].type = "tracking.started") =>
         \E p \in Procs :
            /\ pc[p] = "ba_publish"
            /\ track[p] \in tracks
            /\ published'[Len(published')].bookingID = track[p].bookingID
    /\ (/\ Len(published') > Len(published)
        /\ published'[Len(published')].type = "tracking.completed") =>
         \E p \in Procs :
            /\ pc[p] = "dc_publish"
            /\ track[p] \in tracks
            /\ track[p].status = TrackingCompleted
            /\ published'[Len(published')].bookingID = track[p].bookingID
    /\ \A i \in 1..Len(published') :
         /\ published'[i].type = "tracking.started" =>
              \E r \in tracks' : r.bookingID = published'[i].bookingID
         /\ published'[i].type = "tracking.completed" =>
              \E r \in tracks' : /\ r.bookingID = published'[i].bookingID
                                 /\ r.status = TrackingCompleted
    /\ \A p \in Procs :
         (pc[p] \in {"ba_save", "dc_update"} /\ tracks' = tracks /\ pc'[p] # pc[p]) =>
            /\ pc'[p] = "idle"
            /\ last'.p = p /\ last'.from = pc[p] /\ last'.err = "error"
            /\ published' = published
C40_NotificationsFollowStore == [][C40_LifecycleStep]_vars
\* the track of a booking was saved and tracking.started published, and the Update
\* of its delivery-confirmed handler failed: the handler returned an error, no
\* tracking.completed was published and the stored track is still active
C40_Witness ==
    /\ last.ev.h = "DeliveryConfirmed"
    /\ last.from = "dc_update"
    /\ last.err = "error"
    /\ PublishedOf("tracking.started", last.ev.bookingID) # {}
    /\ PublishedOf("tracking.completed", last.ev.bookingID) = {}
    /\ \E r \in tracks : r.bookingID = last.ev.bookingID /\ r.status = TrackingActive

====
